---- MODULE Spec2Model ----
(***************************************************************************)
(* Model of the slurm-pipeline control plane: the Scheduler main loop of   *)
(* src/slurm_pipeline/control_plane.py and the cluster adapter of          *)
(* src/slurm_pipeline/slurm.py.                                            *)
(*                                                                         *)
(* Lists of work packages are sequences of indices into work_packages      *)
(* (Python object references).  Python's None is the string "None" for     *)
(* string-valued fields, NoneId for job ids, NoneTime for time limits and  *)
(* NoneInt for integers.  A function that can raise returns a record with  *)
(* a field exc naming the exception ("none" when it returns normally).     *)
(***************************************************************************)
EXTENDS Integers, Sequences, FiniteSets, TLC

VARIABLES
    env,             \* what the surroundings of the run can do: the resource configurations,
                     \* the answers of sacct, the number of parameter bundles and of faults,
                     \* the answers of the chat sink (none when no hook is configured)
    properties,      \* job_config['properties']: max_retries, exp_backoff_factor, failure threshold
    work_packages,   \* Scheduler.work_packages
    n_wps,           \* Scheduler.n_wps
    n_init_failed,   \* Scheduler.n_init_failed
    pc,              \* position of Scheduler.main
    chunks,          \* chunks that schedule() has still to submit in this pass
    todo,            \* scheduled packages that monitor() has still to poll in this pass
    next_job_id,     \* the id the cluster hands out at the next accepted sbatch
    sbatch_calls,    \* the sbatch_workfile calls of the schedule pass of this iteration
    submit_count,    \* per package: number of sbatch_workfile calls that covered it
    faults,          \* number of answers of sbatch and sacct so far other than success
    observed,        \* the answer of sacct to the last poll of monitor()
    n_panics,        \* number of calls of Scheduler._panic so far
    cancel_calls,    \* the job ids passed to slurm.cancel so far, in order
    files,           \* the files of log_dir: work.json, succeeded-work.json, failed-work.json
    probe,           \* a call of a function of the cluster adapter on its own, and its result
    slack,           \* Scheduler.slack_channel, slack_thread_id, slack_thread_id_details
    exception        \* the exception that escaped Scheduler.main ("none" if none)

vars == <<env, properties, work_packages, n_wps, n_init_failed, pc, chunks, todo,
          next_job_id, sbatch_calls, submit_count, faults, observed, n_panics,
          cancel_calls, files, probe, slack, exception>>

----------------------------------------------------------------------------
(* Bounds of the model *)

NumParams == 3          \* at most this many parameter bundles in a run
MaxRetriesBound == 1    \* max_retries ranges over 0..MaxRetriesBound
MaxFaults == 2          \* at most this many answers of sbatch and sacct in a run are
                        \* other than success (sbatch exits 0, sacct says COMPLETED)
OomNumParams == 2       \* parameter bundles of a run in which every job runs out of memory
OomMaxRetries == 3      \* max_retries ranges over 0..OomMaxRetries in such a run

(* Constants of slurm.py.  MAX_ARRAY_SIZE is 3000 in the source; the model  *)
(* scales it down to 2 so that a group of three packages is split.          *)
MAX_ARRAY_SIZE == 2
MAX_CPUS == 16
MEM_PER_CPU == 4000
MAX_MEM == MAX_CPUS * MEM_PER_CPU
MAX_BROADWELL_CPUS == 32
MAX_BROADWELL_MEM == MAX_BROADWELL_CPUS * MEM_PER_CPU
MAX_GPU_CPUS == 16
MAX_GPU_MEM == 250000

None == "None"
NoneInt == 0 - 1
NoneId == <<>>

----------------------------------------------------------------------------
(* Time limits: a Python value that is None, a str (sequence of characters) *)
(* or an int.  An intermediate result x = e that the code computes once is  *)
(* bound once, as the only element of {e}.                                   *)

NoneTime == [tag |-> "none", chars |-> <<>>, num |-> 0]
StrTime(cs) == [tag |-> "str", chars |-> cs, num |-> 0]
IntTime(n) == [tag |-> "int", chars |-> <<>>, num |-> n]

DigitVal(c) ==
    CASE c = "0" -> 0 [] c = "1" -> 1 [] c = "2" -> 2 [] c = "3" -> 3 [] c = "4" -> 4
      [] c = "5" -> 5 [] c = "6" -> 6 [] c = "7" -> 7 [] c = "8" -> 8 [] c = "9" -> 9
      [] OTHER -> NoneInt

RECURSIVE SplitAcc(_, _, _, _)
SplitAcc(cs, sep, cur, acc) ==
    IF cs = <<>> THEN Append(acc, cur)
    ELSE IF Head(cs) = sep THEN SplitAcc(Tail(cs), sep, <<>>, Append(acc, cur))
    ELSE SplitAcc(Tail(cs), sep, Append(cur, Head(cs)), acc)

(* str.split(sep) *)
Split(cs, sep) == SplitAcc(cs, sep, <<>>, <<>>)

RECURSIVE IntAcc(_, _)
IntAcc(cs, acc) ==
    IF cs = <<>> THEN acc ELSE IntAcc(Tail(cs), 10 * acc + DigitVal(Head(cs)))

(* int(x) for a string of the characters 0-9, ':' and '-' *)
ToInt(cs) ==
    IF cs = <<>> \/ \E k \in 1..Len(cs) : DigitVal(cs[k]) = NoneInt
    THEN [exc |-> "ValueError", val |-> 0]
    ELSE [exc |-> "none", val |-> IntAcc(cs, 0)]

(* datetime.timedelta(days=int(d), hours=int(h), minutes=int(m),            *)
(* seconds=int(s)), in seconds                                               *)
timedelta(d, h, m, s) ==
    IF \E r \in {d, h, m, s} : r.exc # "none"
    THEN [exc |-> "ValueError", secs |-> 0]
    ELSE [exc |-> "none", secs |-> ((d.val * 24 + h.val) * 60 + m.val) * 60 + s.val]

(* The if/elif chain of slurm.parse_time on t = time_str.split(':'): d is   *)
(* the text before '-' (or the integer 0, written "0"), dSet its truth      *)
(* value                                                                     *)
parse_fields(d, dSet, t) ==
    timedelta(
        ToInt(d),
        ToInt(IF Len(t) \in {1, 2} /\ dSet THEN t[1]
              ELSE IF Len(t) = 3 THEN t[1] ELSE <<"0">>),
        ToInt(IF Len(t) = 2 /\ dSet THEN t[2]
              ELSE IF Len(t) \in {1, 2} /\ ~dSet THEN t[1]
              ELSE IF Len(t) = 3 THEN t[2] ELSE <<"0">>),
        ToInt(IF Len(t) = 2 /\ ~dSet THEN t[2]
              ELSE IF Len(t) = 3 THEN t[3] ELSE <<"0">>))

(* Variant of parse_parts that takes the D- forms only for a day count     *)
(* other than 0                                                              *)
parse_parts_day_count(parts) ==
    IF Len(parts) > 2 THEN [exc |-> "ValueError", secs |-> 0]
    ELSE IF Len(parts) = 2
    THEN CHOOSE r \in {parse_fields(parts[1], ToInt(parts[1]).val # 0, t) :
                          t \in {Split(parts[2], ":")}} : TRUE
    ELSE CHOOSE r \in {parse_fields(<<"0">>, FALSE, t) :
                          t \in {Split(parts[1], ":")}} : TRUE

(* slurm.parse_time once time_str.split('-') is known: unpacking more than  *)
(* two parts into d, time_str raises ValueError                              *)
parse_parts(parts) ==
    IF Len(parts) > 2 THEN [exc |-> "ValueError", secs |-> 0]
    ELSE IF Len(parts) = 2
    THEN CHOOSE r \in {parse_fields(parts[1], parts[1] # <<>>, t) :
                          t \in {Split(parts[2], ":")}} : TRUE
    ELSE CHOOSE r \in {parse_fields(<<"0">>, FALSE, t) :
                          t \in {Split(parts[1], ":")}} : TRUE

(* slurm.parse_time: the timedelta in seconds.  "'-' in time_str" raises    *)
(* TypeError when time_str is an int.                                        *)
parse_time(time_str) ==
    IF time_str.tag = "none" THEN [exc |-> "none", secs |-> 0]
    ELSE IF time_str.tag = "int" THEN [exc |-> "TypeError", secs |-> 0]
    ELSE CHOOSE r \in {parse_parts(parts) :
                          parts \in {Split(time_str.chars, "-")}} : TRUE

(* round(x / 60) for x seconds: Python rounds halves to even *)
round_minutes(secs) ==
    IF secs % 60 < 30 THEN secs \div 60
    ELSE IF secs % 60 > 30 THEN secs \div 60 + 1
    ELSE IF (secs \div 60) % 2 = 0 THEN secs \div 60 ELSE secs \div 60 + 1

to_minutes(r) == [exc |-> r.exc, val |-> round_minutes(r.secs)]

(* slurm.minutes *)
minutes(time_str) == to_minutes(parse_time(time_str))

----------------------------------------------------------------------------
(* Cluster statuses *)

Status == {"BOOT_FAIL", "CANCELLED", "COMPLETED", "CONFIGURING", "COMPLETING",
           "DEADLINE", "FAILED", "NODE_FAIL", "OUT_OF_MEMORY", "PENDING",
           "PREEMPTED", "RUNNING", "RESV_DEL_HOLD", "REQUEUE_FED", "REQUEUE_HOLD",
           "REQUEUED", "RESIZING", "REVOKED", "SIGNALING", "SPECIAL_EXIT",
           "STAGE_OUT", "STOPPED", "SUSPENDED", "TIMEOUT", "UNKNOWN"}

RETRYABLE == {"BOOT_FAIL", "NODE_FAIL", "REQUEUED", "REQUEUE_FED", "STOPPED", "SUSPENDED"}

(* Variant of ACTIVE that lacks RUNNING *)
ACTIVE_without_running == {"PENDING", "CONFIGURING", "COMPLETING", "RESIZING"}

ACTIVE == {"PENDING", "RUNNING", "CONFIGURING", "COMPLETING", "RESIZING"}

----------------------------------------------------------------------------
(* Work packages *)

(* WorkPackage.__init__ *)
WorkPackage(cpus, mem, time, partition) ==
    [cpus |-> cpus, mem |-> mem, time |-> time, partition |-> partition,
     n_tries |-> 0, status |-> "PENDING", slurm_status |-> None,
     error_msg |-> None, stdout |-> NoneId, job_id |-> NoneId, old_job_ids |-> <<>>]

(* WorkPackage.init_failed *)
init_failed(error_msg) ==
    [WorkPackage(0, 0, NoneTime, None) EXCEPT !.status = "FAILED", !.error_msg = error_msg]

Indices(W) == [i \in 1..Len(W) |-> i]

pending_work(W) == SelectSeq(Indices(W), LAMBDA i : W[i].status = "PENDING")
(* Variant of scheduled_work that selects every package holding a job id,   *)
(* whatever its status                                                       *)
scheduled_work_any_status(W) == SelectSeq(Indices(W), LAMBDA i : W[i].job_id # NoneId)

scheduled_work(W) == SelectSeq(pending_work(W), LAMBDA i : W[i].job_id # NoneId)
queued_work(W) == SelectSeq(pending_work(W), LAMBDA i : W[i].job_id = NoneId)
succeeded_work(W) == SelectSeq(Indices(W), LAMBDA i : W[i].status = "SUCCEEDED")
failed_work(W) == SelectSeq(Indices(W), LAMBDA i : W[i].status = "FAILED")

Range(s) == {s[k] : k \in 1..Len(s)}

----------------------------------------------------------------------------
(* Scheduler: handlers of one polled package.  Each returns the package as  *)
(* the handler leaves it, and the exception it raises, if any.              *)

Ret(wp) == [wp |-> wp, exc |-> "none"]
Raise(wp, e) == [wp |-> wp, exc |-> e]

(* Scheduler._decommission *)
_decommission(wp, error_msg) ==
    [wp EXCEPT !.error_msg = IF error_msg # None THEN error_msg ELSE @,
               !.status = "FAILED"]

(* Variant of _requeue_work that allows one resubmission more *)
_requeue_work_one_more(wp) ==
    IF wp.n_tries > properties.max_retries + 1
    THEN _decommission(wp, None)
    ELSE IF wp.job_id # NoneId
         THEN [wp EXCEPT !.old_job_ids = Append(@, wp.job_id), !.job_id = NoneId]
         ELSE wp

(* Variant of _requeue_work that forgets the job id instead of archiving it *)
_requeue_work_forgetful(wp) ==
    IF wp.n_tries > properties.max_retries
    THEN _decommission(wp, None)
    ELSE IF wp.job_id # NoneId
         THEN [wp EXCEPT !.job_id = NoneId]
         ELSE wp

(* Variant of _requeue_work that archives the job id before the retry test  *)
(* and so also for a package it decommissions                                *)
_requeue_work_archive_first(wp) ==
    IF wp.n_tries > properties.max_retries
    THEN _decommission([wp EXCEPT !.old_job_ids = Append(@, wp.job_id)], None)
    ELSE IF wp.job_id # NoneId
         THEN [wp EXCEPT !.old_job_ids = Append(@, wp.job_id), !.job_id = NoneId]
         ELSE wp

(* Scheduler._requeue_work *)
_requeue_work(wp) ==
    IF wp.n_tries > properties.max_retries
    THEN _decommission(wp, None)
    ELSE IF wp.job_id # NoneId
         THEN [wp EXCEPT !.old_job_ids = Append(@, wp.job_id), !.job_id = NoneId]
         ELSE wp

(* Scheduler._process_success *)
_process_success(wp) == [wp EXCEPT !.status = "SUCCEEDED"]

(* Scheduler._process_failure: notify_failure only sends a message, and     *)
(* _notify swallows the exceptions of the chat sink                          *)
_process_failure(wp) == _decommission(wp, None)

timeout_with(wp, m) ==
    IF m.exc # "none" THEN Raise(wp, m.exc)
    ELSE Ret(_requeue_work(
             [wp EXCEPT !.time = IntTime(m.val * properties.exp_backoff_factor)]))

(* Scheduler._process_timeout *)
_process_timeout(wp) == timeout_with(wp, minutes(wp.time))

(* Variant of _process_oom that gives up only above the ceiling *)
_process_oom_above_ceiling(wp) ==
    IF wp.partition = "gpu" THEN Raise(wp, "AttributeError")
    ELSE
      LET mem == IF wp.mem # 0 THEN wp.mem ELSE wp.cpus * MEM_PER_CPU
      IN  IF mem > MAX_MEM
          THEN Ret(_decommission(
                   [wp EXCEPT !.mem = mem, !.error_msg = "ran out of memory"], None))
          ELSE Ret(_requeue_work(
                   [wp EXCEPT !.mem = mem * properties.exp_backoff_factor]))

(* Variant of _process_oom that multiplies the allocation before comparing  *)
(* it with the ceiling                                                       *)
_process_oom_premultiplied(wp) ==
    IF wp.partition = "gpu" THEN Raise(wp, "AttributeError")
    ELSE
      LET mem == (IF wp.mem # 0 THEN wp.mem ELSE wp.cpus * MEM_PER_CPU)
                   * properties.exp_backoff_factor
      IN  IF mem >= MAX_MEM
          THEN Ret(_decommission(
                   [wp EXCEPT !.mem = mem, !.error_msg = "ran out of memory"], None))
          ELSE Ret(_requeue_work([wp EXCEPT !.mem = mem]))

(* Scheduler._process_oom: slurm.GPU_MAX_MEM and slurm.GPU_MEM_PER_CPU are  *)
(* not attributes of the slurm module (it defines MAX_GPU_MEM), so the      *)
(* lookup raises AttributeError for a package on the gpu partition           *)
_process_oom(wp) ==
    IF wp.partition = "gpu" THEN Raise(wp, "AttributeError")
    ELSE
      LET max_mem == MAX_MEM
          mem_per_cpu == MEM_PER_CPU
          mem == IF wp.mem # 0 THEN wp.mem ELSE wp.cpus * mem_per_cpu
      IN  IF mem >= max_mem
          THEN Ret(_decommission(
                   [wp EXCEPT !.mem = mem, !.error_msg = "ran out of memory"], None))
          ELSE Ret(_requeue_work(
                   [wp EXCEPT !.mem = mem * properties.exp_backoff_factor]))

(* Scheduler._process_unknown_status *)
_process_unknown_status(wp) == _decommission(wp, None)

(* Variant of _process_retry that starts counting the tries again *)
_process_retry_recounting(wp) == [_requeue_work(wp) EXCEPT !.n_tries = 0]

(* Scheduler._process_retry *)
_process_retry(wp) == _requeue_work(wp)

(* Variant of _process_cancellation that does not read the stderr log *)
_process_cancellation_blind(wp, oom_log) == Ret(_decommission(wp, None))

(* Scheduler._process_cancellation; oom_log is the result of                *)
(* _oom_cancellation, i.e. whether the stderr log of the package contains   *)
(* 'Exceeded job memory limit'                                               *)
_process_cancellation(wp, oom_log) ==
    IF oom_log THEN _process_oom(wp) ELSE Ret(_decommission(wp, None))

(* The if/elif chain of Scheduler.monitor on the observed status s *)
classify(wp, s, oom_log) ==
    IF s = "COMPLETED" THEN Ret(_process_success(wp))
    ELSE IF s = "TIMEOUT" THEN _process_timeout(wp)
    ELSE IF s = "OUT_OF_MEMORY" THEN _process_oom(wp)
    ELSE IF s \in RETRYABLE THEN Ret(_process_retry(wp))
    ELSE IF s = "FAILED" THEN Ret(_process_failure(wp))
    ELSE IF s = "CANCELLED" THEN _process_cancellation(wp, oom_log)
    ELSE IF s \in ACTIVE THEN Ret(wp)
    ELSE Ret(_process_unknown_status(wp))

(* Variant of monitor_wp that lets the SlurmException of slurm.status pass *)
monitor_wp_aborting(wp, obs) ==
    IF obs.raises THEN Raise(wp, "SlurmException")
    ELSE classify([wp EXCEPT !.slurm_status = obs.s], obs.s, obs.oom_log)

(* Variant of monitor_wp that classifies the status without storing it in   *)
(* wp.slurm_status                                                           *)
monitor_wp_unrecorded(wp, obs) ==
    IF obs.raises THEN Ret(_decommission(wp, "sacct error"))
    ELSE classify(wp, obs.s, obs.oom_log)

(* The body of the loop of Scheduler.monitor for one package.  obs is what  *)
(* the cluster answers: obs.raises when slurm.status raises SlurmException   *)
(* (sacct exits with a positive code), else the status obs.s.                *)
monitor_wp(wp, obs) ==
    IF obs.raises THEN Ret(_decommission(wp, "sacct error"))
    ELSE classify([wp EXCEPT !.slurm_status = obs.s], obs.s, obs.oom_log)

----------------------------------------------------------------------------
(* Cluster adapter: SlurmConfig and sbatch_workfile *)

(* SlurmConfig._determine_partition *)
_determine_partition(cpus, mem) ==
    IF mem > MAX_BROADWELL_MEM THEN "gpu"
    ELSE IF cpus > MAX_CPUS \/ mem > MAX_MEM THEN "broadwell"
    ELSE "standard"

(* SlurmConfig._determine_gres; MAX_GPU_CPUS / 2 and MAX_GPU_MEM / 2 are    *)
(* compared without rounding                                                 *)
_determine_gres(partition, cpus, mem) ==
    IF partition # "gpu" THEN None
    ELSE IF 2 * cpus > MAX_GPU_CPUS \/ 2 * mem > MAX_GPU_MEM THEN "gpu:v100:2"
    ELSE "gpu:v100:1"

(* 'not self.time': None, the empty string and the integer 0 are falsy *)
Falsy(time) ==
    \/ time.tag = "none"
    \/ time.tag = "str" /\ time.chars = <<>>
    \/ time.tag = "int" /\ time.num = 0

qos_of(m) ==
    IF m.exc # "none" THEN [exc |-> m.exc, val |-> None]
    ELSE IF m.val > 24 * 60 * 7 THEN [exc |-> "none", val |-> "long"]
    ELSE IF m.val > 24 * 60 THEN [exc |-> "none", val |-> "medium"]
    ELSE [exc |-> "none", val |-> "short"]

(* SlurmConfig._determine_qos *)
_determine_qos(partition, time) ==
    IF partition = "io" THEN [exc |-> "none", val |-> "io"]
    ELSE IF Falsy(time) THEN [exc |-> "none", val |-> "long"]
    ELSE CHOOSE q \in {qos_of(m) : m \in {minutes(time)}} : TRUE

config_with(time, cpus, mem, array, partition, qos) ==
    [exc |-> qos.exc,
     conf |-> [time |-> time, cpus |-> cpus, mem |-> mem, array |-> array,
               partition |-> partition, gres |-> _determine_gres(partition, cpus, mem),
               qos |-> qos.val]]

config_on(time, cpus, mem, array, partition) ==
    config_with(time, cpus, mem, array, partition, _determine_qos(partition, time))

(* SlurmConfig.__init__ as called by _submit_work; array is the number of   *)
(* tasks of the array '0-<n-1>', 0 for no array                              *)
SlurmConfig(time, cpus, mem, array, partition) ==
    config_on(time, cpus, mem, array,
              IF partition # None THEN partition ELSE _determine_partition(cpus, mem))

clamp_cpus(conf) ==
    IF conf.cpus > MAX_BROADWELL_CPUS THEN [conf EXCEPT !.cpus = MAX_BROADWELL_CPUS]
    ELSE conf

clamp_mem(conf) ==
    IF conf.mem > MAX_GPU_MEM THEN [conf EXCEPT !.mem = MAX_GPU_MEM] ELSE conf

(* Variant of resolve_conflict that keeps the cpus of the request *)
resolve_conflict_skipped(conf) == conf

resolve_conflict(conf) ==
    IF conf.cpus > MAX_GPU_CPUS /\ conf.mem > MAX_BROADWELL_MEM
    THEN [conf EXCEPT !.cpus = MAX_GPU_CPUS] ELSE conf

drop_array(conf) ==
    IF conf.array # 0 /\ conf.partition = "io" THEN [conf EXCEPT !.array = 0] ELSE conf

(* SlurmConfig.validate_and_adjust: its four if statements in order *)
validate_and_adjust(conf) == drop_array(resolve_conflict(clamp_mem(clamp_cpus(conf))))

sbatch_with(conf, sbatch_ok, id) ==
    IF ~sbatch_ok
    THEN [exc |-> "SlurmException", conf |-> conf, job_id |-> NoneId, task_ids |-> <<>>]
    ELSE [exc |-> "none", conf |-> conf, job_id |-> <<id>>,
          task_ids |-> [a \in 1..conf.array |-> <<id, a - 1>>]]

(* slurm.sbatch_workfile: sbatch_ok is whether the sbatch command exits     *)
(* with 0, id the job id it prints.  Job id 'n' is <<n>>, the task id       *)
(* 'n_i' is <<n, i>>.                                                        *)
sbatch_workfile(slurm_conf, sbatch_ok, id) ==
    sbatch_with(validate_and_adjust(slurm_conf), sbatch_ok, id)

(* The output of a command is a sequence of items: a word (a run of         *)
(* non-blank characters), a blank " " or a line break "\n".                  *)
IsWord(x) == x \notin {" ", "\n"}

(* str.splitlines: the lines between the line breaks, without an empty last *)
(* line                                                                      *)
splitlines(out) ==
    CHOOSE ls \in {IF parts[Len(parts)] = <<>> THEN SubSeq(parts, 1, Len(parts) - 1)
                   ELSE parts : parts \in {Split(out, "\n")}} : TRUE

(* str.split(maxsplit=1)[0]: the first run of words of the line, after its  *)
(* leading blanks; <<>> stands for the IndexError of an all-blank line      *)
RECURSIVE first_token(_)
first_token(line) ==
    IF line = <<>> THEN <<>>
    ELSE IF Head(line) = " " THEN first_token(Tail(line))
    ELSE IF Len(line) > 1 /\ IsWord(line[2])
         THEN <<Head(line)>> \o first_token(Tail(line))
         ELSE <<Head(line)>>

(* Status(s): the member whose value is s, ValueError if there is none; a   *)
(* token of several words is the concatenation of their characters          *)
to_status(token) ==
    IF Len(token) = 1 /\ token[1] \in Status
    THEN [exc |-> "none", val |-> token[1], msg |-> <<>>]
    ELSE [exc |-> "none", val |-> "UNKNOWN", msg |-> <<>>]

(* slurm.status on what subprocess.run returns for the sacct command: p is  *)
(* its returncode, stdout and stderr                                        *)
status(p) ==
    IF p.returncode > 0
    THEN [exc |-> "SlurmException", val |-> None,
          msg |-> <<"Error running Slurm cmd", p.stderr>>]
    ELSE IF splitlines(p.stdout) = <<>> \/ first_token(splitlines(p.stdout)[1]) = <<>>
    THEN [exc |-> "none", val |-> "PENDING", msg |-> <<>>]
    ELSE to_status(first_token(splitlines(p.stdout)[1]))

----------------------------------------------------------------------------
(* Scheduler: grouping, submission, panic and the failure thresholds *)

ResourceKey(wp) == <<wp.cpus, wp.mem, wp.time, wp.partition>>

RECURSIVE DistinctKeys(_, _, _)
DistinctKeys(W, wps, acc) ==
    IF wps = <<>> THEN acc
    ELSE DistinctKeys(W, Tail(wps),
                      IF \E j \in 1..Len(acc) : acc[j] = ResourceKey(W[Head(wps)])
                      THEN acc ELSE Append(acc, ResourceKey(W[Head(wps)])))

groups_of(W, wps, keys) ==
    [g \in 1..Len(keys) |-> SelectSeq(wps, LAMBDA i : ResourceKey(W[i]) = keys[g])]

(* Variant of _groupby_resource_allocation with the semantics of            *)
(* itertools.groupby: one group per run of consecutive equal keys           *)
_groupby_consecutive(W, wps) ==
    LET starts == SelectSeq([k \in 1..Len(wps) |-> k],
                            LAMBDA k : \/ k = 1
                                       \/ ResourceKey(W[wps[k]]) # ResourceKey(W[wps[k - 1]]))
    IN  [g \in 1..Len(starts) |->
            SubSeq(wps, starts[g],
                   IF g < Len(starts) THEN starts[g + 1] - 1 ELSE Len(wps))]

(* Scheduler._groupby_resource_allocation: the values of a dict keyed by    *)
(* the resource tuple, in the order in which the keys were first inserted   *)
_groupby_resource_allocation(W, wps) == groups_of(W, wps, DistinctKeys(W, wps, <<>>))

(* Variant of _slurm_chunks whose chunks hold one package more *)
_slurm_chunks_wide(wps) ==
    [c \in 1..((Len(wps) + MAX_ARRAY_SIZE) \div (MAX_ARRAY_SIZE + 1)) |->
        SubSeq(wps, (c - 1) * (MAX_ARRAY_SIZE + 1) + 1,
               IF c * (MAX_ARRAY_SIZE + 1) < Len(wps) THEN c * (MAX_ARRAY_SIZE + 1)
               ELSE Len(wps))]

(* Scheduler._slurm_chunks *)
_slurm_chunks(wps) ==
    [c \in 1..((Len(wps) + MAX_ARRAY_SIZE - 1) \div MAX_ARRAY_SIZE) |->
        SubSeq(wps, (c - 1) * MAX_ARRAY_SIZE + 1,
               IF c * MAX_ARRAY_SIZE < Len(wps) THEN c * MAX_ARRAY_SIZE ELSE Len(wps))]

RECURSIVE chunks_of(_)
chunks_of(groups) ==
    IF groups = <<>> THEN <<>>
    ELSE _slurm_chunks(Head(groups)) \o chunks_of(Tail(groups))

(* The chunks that Scheduler.schedule submits, in order *)
schedule_chunks(W) == chunks_of(_groupby_resource_allocation(W, queued_work(W)))

PosIn(wps, i) == CHOOSE k \in 1..Len(wps) : wps[k] = i

(* Variant of the loop of _submit_work that does not count the try *)
submitted_uncounted(wp, n, k, r) ==
    IF n = 1 THEN [wp EXCEPT !.job_id = r.job_id, !.stdout = r.job_id]
    ELSE IF k <= Len(r.task_ids)
    THEN [wp EXCEPT !.job_id = r.task_ids[k], !.stdout = r.task_ids[k]]
    ELSE [wp EXCEPT !.job_id = r.job_id, !.stdout = <<r.job_id[1], k - 1>>]

(* The loop of _submit_work over the chunk, for the package at position k:  *)
(* r is what sbatch_workfile returned                                        *)
submitted(wp, n, k, r) ==
    IF n = 1
    THEN [wp EXCEPT !.job_id = r.job_id, !.stdout = r.job_id, !.n_tries = @ + 1]
    ELSE IF k <= Len(r.task_ids)
    THEN [wp EXCEPT !.job_id = r.task_ids[k], !.stdout = r.task_ids[k],
                    !.n_tries = @ + 1]
    ELSE [wp EXCEPT !.job_id = r.job_id, !.stdout = <<r.job_id[1], k - 1>>,
                    !.n_tries = @ + 1]

(* Variant of submit_result that decommissions the chunk and raises the      *)
(* SlurmException of sbatch again                                            *)
submit_result_reraising(W, wps, call, r) ==
    IF r.exc # "none"
    THEN [W |-> [i \in DOMAIN W |->
                    IF i \in Range(wps) THEN _decommission(W[i], "sbatch error")
                    ELSE W[i]],
          exc |-> r.exc, calls |-> <<call>>]
    ELSE [W |-> [i \in DOMAIN W |->
                    IF i \in Range(wps) THEN submitted(W[i], Len(wps), PosIn(wps, i), r)
                    ELSE W[i]],
          exc |-> "none", calls |-> <<call>>]

submit_result(W, wps, call, r) ==
    IF r.exc # "none"
    THEN [W |-> [i \in DOMAIN W |->
                    IF i \in Range(wps) THEN _decommission(W[i], "sbatch error")
                    ELSE W[i]],
          exc |-> "none", calls |-> <<call>>]
    ELSE [W |-> [i \in DOMAIN W |->
                    IF i \in Range(wps) THEN submitted(W[i], Len(wps), PosIn(wps, i), r)
                    ELSE W[i]],
          exc |-> "none", calls |-> <<call>>]

submit_call(W, wps, sc, sbatch_ok, r) ==
    submit_result(W, wps,
                  [wps |-> wps, slurm_conf |-> sc.conf, options |-> r.conf, ok |-> sbatch_ok,
                   keys |-> [k \in DOMAIN wps |-> ResourceKey(W[wps[k]])]],
                  r)

submit_with(W, wps, sc, sbatch_ok, id) ==
    IF sc.exc # "none" THEN [W |-> W, exc |-> sc.exc, calls |-> <<>>]
    ELSE CHOOSE res \in {submit_call(W, wps, sc, sbatch_ok, r) :
                            r \in {sbatch_workfile(sc.conf, sbatch_ok, id)}} : TRUE

(* Scheduler._submit_work for the chunk wps.  Returns the packages, the     *)
(* exception that escapes, and the sbatch_workfile calls made (none when    *)
(* SlurmConfig raises): the chunk, the SlurmConfig passed, the adjusted     *)
(* configuration from which to_s builds the options of the sbatch command,  *)
(* whether sbatch accepted it, and the resource tuple each package of the   *)
(* chunk had.                                                                *)
_submit_work(W, wps, sbatch_ok, id) ==
    CHOOSE r \in {submit_with(W, wps, slurm_conf, sbatch_ok, id) :
                    slurm_conf \in {SlurmConfig(W[wps[1]].time, W[wps[1]].cpus,
                                                W[wps[1]].mem,
                                                IF Len(wps) > 1 THEN Len(wps) ELSE 0,
                                                W[wps[1]].partition)}} : TRUE

(* The chat sink.  A call of the Slack client (slack.send_message or       *)
(* slack.update_message) ends in one of three ways: "ok", it returns the    *)
(* timestamp and the channel of the message; "none", it caught a            *)
(* SlackApiError and returns (None, None); "raises", it raises another      *)
(* exception.                                                                *)
SinkAnswers == {"ok", "none", "raises"}

(* Variant of _notify that lets the exception of the Slack client pass *)
_notify_uncaught(s, sink) ==
    IF s.channel /\ sink = "ok" THEN [exc |-> "none", ts |-> "ts", channel |-> TRUE,
                                      failed |-> FALSE]
    ELSE [exc |-> IF s.channel /\ sink = "raises" THEN "Exception" ELSE "none",
          ts |-> None, channel |-> FALSE, failed |-> s.channel]

(* Scheduler._notify on the slack state s: the pair it returns, the         *)
(* exception that escapes it, and whether the call of the sink failed        *)
_notify(s, sink) ==
    IF s.channel /\ sink = "ok" THEN [exc |-> "none", ts |-> "ts", channel |-> TRUE,
                                      failed |-> FALSE]
    ELSE [exc |-> "none", ts |-> None, channel |-> FALSE, failed |-> s.channel]

(* The exception of the first call that raises *)
RECURSIVE first_exc(_)
first_exc(rs) ==
    IF rs = <<>> THEN "none"
    ELSE IF Head(rs).exc # "none" THEN Head(rs).exc ELSE first_exc(Tail(rs))

any_failed(s, rs) == s.failed \/ \E k \in DOMAIN rs : rs[k].failed

(* Scheduler.notify_start: the status message, whose answer replaces        *)
(* slack_thread_id and slack_channel, the work status, whose answer gives   *)
(* slack_thread_id_details, and a message if initialisations failed          *)
notify_start(s, W, sk) ==
    LET r1 == _notify(s, sk[1])
        s1 == [s EXCEPT !.thread_id = r1.ts, !.channel = r1.channel]
        r2 == IF r1.exc # "none" THEN <<>> ELSE <<_notify(s1, sk[2])>>
        s2 == IF r2 = <<>> THEN s1 ELSE [s1 EXCEPT !.thread_id_details = r2[1].ts]
        r3 == IF first_exc(<<r1>> \o r2) # "none" \/ failed_work(W) = <<>> THEN <<>>
              ELSE <<_notify(s2, sk[3])>>
    IN [slack |-> [s2 EXCEPT !.failed = any_failed(s, <<r1>> \o r2 \o r3)],
        exc |-> first_exc(<<r1>> \o r2 \o r3)]

(* Scheduler.notify_status: updates of the status message and of the work   *)
(* status, and the failure summary when every_n_polls says so                *)
notify_status(s, W, every_n_polls, sk) ==
    LET r1 == _notify(s, sk[1])
        r2 == IF r1.exc # "none" \/ s.thread_id_details = None THEN <<>>
              ELSE <<_notify(s, sk[2])>>
        r3 == IF first_exc(<<r1>> \o r2) # "none" \/ ~every_n_polls \/ failed_work(W) = <<>>
              THEN <<>> ELSE <<_notify(s, sk[3])>>
    IN [slack |-> [s EXCEPT !.failed = any_failed(s, <<r1>> \o r2 \o r3)],
        exc |-> first_exc(<<r1>> \o r2 \o r3)]

(* Scheduler.notify_failure *)
notify_failure(s, sk) ==
    LET r1 == _notify(s, sk[1])
    IN [slack |-> [s EXCEPT !.failed = any_failed(s, <<r1>>)], exc |-> r1.exc]

(* Scheduler.notify_done: notify_status, the failure summary and the final  *)
(* message                                                                   *)
notify_done(s, W, every_n_polls, sk) ==
    LET st == notify_status(s, W, every_n_polls, sk)
        r4 == IF st.exc # "none" THEN <<>> ELSE <<_notify(s, sk[4])>>
        r5 == IF st.exc # "none" \/ first_exc(r4) # "none" THEN <<>>
              ELSE <<_notify(s, sk[5])>>
    IN [slack |-> [s EXCEPT !.failed = any_failed(st.slack, r4 \o r5)],
        exc |-> IF st.exc # "none" THEN st.exc ELSE first_exc(r4 \o r5)]

(* The second loop of _panic: scheduled packages up to position last *)
panic_scheduled(W, sched, last) ==
    [i \in DOMAIN W |->
        IF \E k \in 1..last : sched[k] = i
        THEN [W[i] EXCEPT !.error_msg = "Panic! All running jobs were canceled.",
                          !.status = "FAILED"]
        ELSE W[i]]

(* Variant of the first loop of _panic that leaves the queue as it is *)
panic_queued_untouched(W, queued) == W

(* The first loop of _panic: queued packages *)
panic_queued(W, queued) ==
    [i \in DOMAIN W |->
        IF i \in Range(queued)
        THEN [W[i] EXCEPT !.error_msg = "Panic! All work packages in queue were canceled.",
                          !.status = "FAILED"]
        ELSE W[i]]

(* Scheduler._panic.  fail_at is the position, in scheduled_work(), of the  *)
(* first package whose scancel exits non-zero (slurm.cancel raises          *)
(* SlurmException, which ends the sweep), 0 when every scancel succeeds.    *)
_panic(W, fail_at) ==
    [W |-> panic_scheduled(panic_queued(W, queued_work(W)), scheduled_work(W),
                           IF fail_at = 0 THEN Len(scheduled_work(W)) ELSE fail_at),
     cancels |-> [k \in 1..(IF fail_at = 0 THEN Len(scheduled_work(W)) ELSE fail_at) |->
                     W[scheduled_work(W)[k]].job_id],
     exc |-> IF fail_at = 0 THEN "none" ELSE "SlurmException"]

(* WorkPackage.encode of package i: its parameter bundle is the i-th of     *)
(* _get_work_params; the other keys are the attributes of the package       *)
encode(W, i) == ("params" :> i) @@ W[i]

(* A file that was not written, and a json file of the records rows *)
NoFile == [written |-> FALSE, rows |-> <<>>]
File(rows) == [written |-> TRUE, rows |-> rows]

(* Variant of _persist_work_status that writes every package whatever the  *)
(* status asked for                                                          *)
_persist_work_status_unfiltered(W, wp_status) == [i \in 1..Len(W) |-> encode(W, i)]

selected(W, wp_status) ==
    SelectSeq(Indices(W), LAMBDA i : wp_status = None \/ W[i].status = wp_status)

(* Scheduler._persist_work_status: the records it writes; the status None   *)
(* selects every package                                                     *)
_persist_work_status(W, wp_status) ==
    [k \in 1..Len(selected(W, wp_status)) |-> encode(W, selected(W, wp_status)[k])]

(* n_failed / n_total >= failure_threshold, the threshold being num / den *)
threshold_reached(n_failed, n_total, failure_threshold) ==
    n_failed * failure_threshold.den >= failure_threshold.num * n_total

RateReached(n_failed, n_total) ==
    threshold_reached(n_failed, n_total, properties.failure_threshold)

(* Variant of _init_failure_threshold_reached that needs the rate to exceed *)
(* the threshold                                                             *)
_init_failure_threshold_exceeded(n_failed, n_total) ==
    n_failed * properties.failure_threshold.den > properties.failure_threshold.num * n_total

(* Scheduler._init_failure_threshold_reached *)
_init_failure_threshold_reached(n_failed, n_total) == RateReached(n_failed, n_total)

(* Variant of the runtime threshold that is evaluated only once more than   *)
(* failure_threshold_activation packages are processed                       *)
runtime_rate_after_activation(n_failed_wps, n_processed_wps, props) ==
    IF n_processed_wps <= props.failure_threshold_activation THEN FALSE
    ELSE threshold_reached(n_failed_wps, n_processed_wps, props.failure_threshold)

(* The body of _runtime_failure_threshold_reached on its two counts, for    *)
(* the job properties props                                                  *)
runtime_rate_of(n_failed_wps, n_processed_wps, props) ==
    IF n_processed_wps < props.failure_threshold_activation THEN FALSE
    ELSE threshold_reached(n_failed_wps, n_processed_wps, props.failure_threshold)

runtime_rate(n_failed_wps, n_processed_wps) ==
    runtime_rate_of(n_failed_wps, n_processed_wps, properties)

(* Scheduler._runtime_failure_threshold_reached *)
_runtime_failure_threshold_reached(W, init_failed_count) ==
    runtime_rate(Len(failed_work(W)) - init_failed_count,
                 Len(succeeded_work(W)) + Len(failed_work(W)) - init_failed_count)

----------------------------------------------------------------------------
(* Inputs of a run *)

(* The job properties of a run.  failure_threshold is the rational num/den, *)
(* here 0.6, evaluated from the first processed package on;                 *)
(* exp_backoff_factor is config.DEFAULT_EXP_BACKOFF_FACTOR.                 *)
Properties ==
    {[max_retries |-> r, exp_backoff_factor |-> 4,
      failure_threshold |-> [num |-> 3, den |-> 5],
      failure_threshold_activation |-> 1] : r \in 0..MaxRetriesBound}

(* What config.get_resource_config returns for a parameter bundle *)
ResourceConfs ==
    { [cpus |-> 1, mem |-> 0, partition |-> None,
       time |-> StrTime(<<"0", "1", ":", "0", "0", ":", "0", "0">>)],
      [cpus |-> 2, mem |-> 0, partition |-> None,
       time |-> StrTime(<<"0", "2", ":", "0", "0", ":", "0", "0">>)] }

(* get_resource_config returns a resource configuration or raises *)
InitOptions ==
    {[raises |-> FALSE, conf |-> c] : c \in ResourceConfs}
      \cup {[raises |-> TRUE, conf |-> CHOOSE c \in ResourceConfs : TRUE]}

(* The statuses the model lets sacct report *)
PolledStatuses ==
    {"COMPLETED", "TIMEOUT", "OUT_OF_MEMORY", "NODE_FAIL", "FAILED", "CANCELLED",
     "RUNNING", "UNKNOWN"}

(* The answers to one poll *)
Observations ==
    {[raises |-> TRUE, s |-> "UNKNOWN", oom_log |-> FALSE]}
      \cup {[raises |-> FALSE, s |-> s, oom_log |-> FALSE] : s \in PolledStatuses}
      \cup {[raises |-> FALSE, s |-> "CANCELLED", oom_log |-> TRUE]}

----------------------------------------------------------------------------
(* The state machine of Scheduler.main *)

(* No poll yet *)
NoObservation == [raises |-> FALSE, s |-> None, oom_log |-> FALSE]

(* No function of the cluster adapter is called on its own *)
NoProbe == [fn |-> None]

(* Whether job_config['properties']['slack'] holds a channel and a token;  *)
(* without them the notify_* methods of main only write to the log          *)
Notifying == env.sinks # {}

(* The position after a step of main that a notification follows *)
via(step, next) == IF Notifying THEN step ELSE next

(* The state of a Scheduler after __init__; slack.failed records whether a  *)
(* call of the chat sink has failed so far                                   *)
ConstructedScheduler ==
    /\ work_packages = <<>>
    /\ n_wps = NoneInt
    /\ n_init_failed = NoneInt
    /\ pc = "init_queue"
    /\ chunks = <<>>
    /\ todo = <<>>
    /\ next_job_id = 1
    /\ sbatch_calls = <<>>
    /\ submit_count = <<>>
    /\ faults = 0
    /\ observed = NoObservation
    /\ n_panics = 0
    /\ cancel_calls = <<>>
    /\ files = [work |-> NoFile, succeeded |-> NoFile, failed |-> NoFile]
    /\ slack = [channel |-> Notifying, thread_id |-> None, thread_id_details |-> None,
                failed |-> FALSE]
    /\ exception = "none"

(* A Scheduler after __init__, and no other call of the adapter *)
Constructed == ConstructedScheduler /\ probe = NoProbe

(* Runs of any job properties in surroundings that answer anything, with    *)
(* at most MaxFaults faults                                                  *)
Init ==
    /\ env = [sinks |-> {}, num_params |-> NumParams, max_faults |-> MaxFaults,
              init_options |-> InitOptions, observations |-> Observations]
    /\ properties \in Properties
    /\ Constructed

(* The loop of init_queue over the parameter bundles *)
init_packages(opts) ==
    [i \in DOMAIN opts |->
        IF opts[i].raises THEN init_failed("init error")
        ELSE WorkPackage(opts[i].conf.cpus, opts[i].conf.mem,
                         opts[i].conf.time, opts[i].conf.partition)]

(* Variant of the end of init_queue that counts in n_wps only the packages  *)
(* whose initialisation succeeded                                            *)
init_done_pending_only(W) ==
    /\ n_wps' = Len(pending_work(W))
    /\ n_init_failed' = Len(failed_work(W))
    /\ submit_count' = [i \in DOMAIN W |-> 0]
    /\ work_packages' =
         IF Len(W) # 0 /\ _init_failure_threshold_reached(Len(failed_work(W)), Len(W))
         THEN _panic(W, 0).W ELSE W
    /\ n_panics' =
         IF Len(W) # 0 /\ _init_failure_threshold_reached(Len(failed_work(W)), Len(W))
         THEN 1 ELSE 0
    /\ files' = [files EXCEPT !.work = File(_persist_work_status(work_packages', None))]
    /\ pc' = via("notify_start", "loop")

(* The end of init_queue: the counters and the init failure threshold *)
init_done(W) ==
    /\ n_wps' = Len(W)
    /\ n_init_failed' = Len(failed_work(W))
    /\ submit_count' = [i \in DOMAIN W |-> 0]
    /\ work_packages' =
         IF Len(W) # 0 /\ _init_failure_threshold_reached(Len(failed_work(W)), Len(W))
         THEN _panic(W, 0).W ELSE W
    /\ n_panics' =
         IF Len(W) # 0 /\ _init_failure_threshold_reached(Len(failed_work(W)), Len(W))
         THEN 1 ELSE 0
    /\ files' = [files EXCEPT !.work = File(_persist_work_status(work_packages', None))]
    /\ pc' = via("notify_start", "loop")

(* Scheduler.init_queue (followed by notify_start and init_logger, which    *)
(* touch no work package)                                                    *)
init_queue ==
    /\ pc = "init_queue"
    /\ \E n \in 0..env.num_params : \E opts \in [1..n -> env.init_options] :
         \E W \in {init_packages(opts)} : init_done(W)
    /\ UNCHANGED <<env, properties, chunks, todo, next_job_id, sbatch_calls, faults, observed,
                   cancel_calls, probe, slack, exception>>

schedule_with(cs) ==
    /\ chunks' = cs
    /\ IF cs = <<>>
       THEN pc' = "monitor" /\ todo' = scheduled_work(work_packages)
       ELSE pc' = "schedule" /\ todo' = <<>>

(* Scheduler.schedule up to its first submission: the loop test of main     *)
(* succeeded, the queued packages are grouped and chunked                    *)
schedule ==
    /\ pc = "loop"
    /\ pending_work(work_packages) # <<>>
    /\ \E cs \in {schedule_chunks(work_packages)} : schedule_with(cs)
    /\ sbatch_calls' = <<>>
    /\ UNCHANGED <<env, properties, work_packages, n_wps, n_init_failed, next_job_id, observed,
                   submit_count, faults, n_panics, cancel_calls, files, probe, slack, exception>>

submit_done(r, sbatch_ok) ==
    /\ work_packages' = r.W
    /\ sbatch_calls' = sbatch_calls \o r.calls
    /\ submit_count' = [i \in DOMAIN submit_count |->
                          IF r.calls # <<>> /\ i \in Range(Head(chunks))
                          THEN submit_count[i] + 1 ELSE submit_count[i]]
    /\ next_job_id' = IF r.calls # <<>> /\ sbatch_ok THEN next_job_id + 1
                      ELSE next_job_id
    /\ IF r.exc # "none"
       THEN /\ pc' = "crashed"
            /\ exception' = r.exc
            /\ UNCHANGED <<chunks, todo>>
       ELSE /\ chunks' = Tail(chunks)
            /\ exception' = exception
            /\ IF Tail(chunks) = <<>>
               THEN pc' = "monitor" /\ todo' = scheduled_work(r.W)
               ELSE pc' = "schedule" /\ todo' = todo

(* One iteration of the loops of Scheduler.schedule: _submit_work for the   *)
(* next chunk; after the last chunk, wait() and the start of monitor()      *)
submit_chunk ==
    /\ pc = "schedule"
    /\ chunks # <<>>
    /\ \E sbatch_ok \in BOOLEAN :
         /\ ~sbatch_ok => faults < env.max_faults
         /\ faults' = IF sbatch_ok THEN faults ELSE faults + 1
         /\ \E r \in {_submit_work(work_packages, Head(chunks), sbatch_ok, next_job_id)} :
              submit_done(r, sbatch_ok)
    /\ UNCHANGED <<env, properties, n_wps, n_init_failed, observed, n_panics, cancel_calls,
                   files, probe, slack>>

(* obs.s is FAILED: _process_failure calls notify_failure *)
poll_done(i, r) ==
    /\ work_packages' = [work_packages EXCEPT ![i] = r.wp]
    /\ IF r.exc # "none"
       THEN pc' = "crashed" /\ exception' = r.exc /\ todo' = todo
       ELSE /\ pc' = IF ~observed'.raises /\ observed'.s = "FAILED"
                     THEN via("notify_failure", pc) ELSE pc
            /\ exception' = exception
            /\ todo' = Tail(todo)

(* One iteration of the loop of Scheduler.monitor: poll the next scheduled  *)
(* package and classify the answer                                           *)
monitor_poll ==
    /\ pc = "monitor"
    /\ todo # <<>>
    /\ \E obs \in env.observations :
         /\ (obs.raises \/ obs.s # "COMPLETED") => faults < env.max_faults
         /\ observed' = obs
         /\ faults' = IF obs.raises \/ obs.s # "COMPLETED" THEN faults + 1 ELSE faults
         /\ \E r \in {monitor_wp(work_packages[Head(todo)], obs)} :
              poll_done(Head(todo), r)
    /\ UNCHANGED <<env, properties, n_wps, n_init_failed, chunks, next_job_id,
                   sbatch_calls, submit_count, n_panics, cancel_calls, files, probe, slack>>

(* Variant of the panic at the end of monitor in which _panic does not      *)
(* persist the state it leaves                                               *)
panic_done_unpersisted(r) ==
    /\ work_packages' = r.W
    /\ n_panics' = n_panics + 1
    /\ cancel_calls' = cancel_calls \o r.cancels
    /\ files' = [files EXCEPT !.work = File(_persist_work_status(work_packages, None))]
    /\ pc' = IF r.exc # "none" THEN "crashed" ELSE via("notify_status", "loop")
    /\ exception' = r.exc

(* _panic called at the end of monitor: work.json holds the state that      *)
(* monitor persisted before the call unless _panic reaches its own persist   *)
panic_done(r) ==
    /\ work_packages' = r.W
    /\ n_panics' = n_panics + 1
    /\ cancel_calls' = cancel_calls \o r.cancels
    /\ files' = [files EXCEPT !.work = File(_persist_work_status(
                                                IF r.exc # "none" THEN work_packages
                                                ELSE r.W, None))]
    /\ pc' = IF r.exc # "none" THEN "crashed" ELSE via("notify_status", "loop")
    /\ exception' = r.exc

(* Variant of the end of Scheduler.monitor that does not persist *)
monitor_end_unpersisted ==
    /\ pc = "monitor"
    /\ todo = <<>>
    /\ IF _runtime_failure_threshold_reached(work_packages, n_init_failed)
       THEN \E fail_at \in 0..Len(scheduled_work(work_packages)) :
              \E r \in {_panic(work_packages, fail_at)} : panic_done(r)
       ELSE /\ work_packages' = work_packages
            /\ pc' = via("notify_status", "loop")
            /\ UNCHANGED <<n_panics, cancel_calls, exception, files>>
    /\ sbatch_calls' = <<>>
    /\ UNCHANGED <<env, properties, n_wps, n_init_failed, chunks, todo, next_job_id, observed,
                   submit_count, faults, probe, slack>>

(* The end of Scheduler.monitor: persist, evaluate the runtime failure      *)
(* threshold, panic if it is reached; then notify_status                     *)
monitor_end ==
    /\ pc = "monitor"
    /\ todo = <<>>
    /\ IF _runtime_failure_threshold_reached(work_packages, n_init_failed)
       THEN \E fail_at \in 0..Len(scheduled_work(work_packages)) :
              \E r \in {_panic(work_packages, fail_at)} : panic_done(r)
       ELSE /\ work_packages' = work_packages
            /\ files' = [files EXCEPT !.work = File(_persist_work_status(work_packages,
                                                                         None))]
            /\ pc' = via("notify_status", "loop")
            /\ UNCHANGED <<n_panics, cancel_calls, exception>>
    /\ sbatch_calls' = <<>>
    /\ UNCHANGED <<env, properties, n_wps, n_init_failed, chunks, todo, next_job_id, observed,
                   submit_count, faults, probe, slack>>

(* Scheduler.persist_results *)
persist_results(W) ==
    [files EXCEPT !.succeeded = File(_persist_work_status(W, "SUCCEEDED")),
                  !.failed = File(_persist_work_status(W, "FAILED"))]

(* The loop test of main fails: persist_results, notify_done, cleanup *)
finish ==
    /\ pc = "loop"
    /\ pending_work(work_packages) = <<>>
    /\ files' = persist_results(work_packages)
    /\ pc' = via("notify_done", "done")
    /\ UNCHANGED <<env, properties, work_packages, n_wps, n_init_failed, chunks, todo, observed,
                   next_job_id, sbatch_calls, submit_count, faults, n_panics, cancel_calls,
                   probe, slack, exception>>

Next ==
    \/ init_queue
    \/ schedule
    \/ submit_chunk
    \/ monitor_poll
    \/ monitor_end
    \/ finish

Spec == Init /\ [][Next]_vars

(* Scheduler.main is a sequential program: it always takes its next step *)
FairSpec == Spec /\ WF_vars(Next)

(* Job properties of the runs in which every job runs out of memory *)
OomProperties ==
    {[max_retries |-> r, exp_backoff_factor |-> f,
      failure_threshold |-> [num |-> 3, den |-> 5],
      failure_threshold_activation |-> 1] : r \in 0..OomMaxRetries, f \in {2, 4}}

(* Resource configurations of these runs: one cpu, MAX_CPUS cpus (whose     *)
(* cpus * MEM_PER_CPU is MAX_MEM), and one cpu on the gpu partition          *)
OomResourceConfs ==
    { [cpus |-> 1, mem |-> 0, partition |-> None,
       time |-> StrTime(<<"0", "1", ":", "0", "0", ":", "0", "0">>)],
      [cpus |-> MAX_CPUS, mem |-> 0, partition |-> None,
       time |-> StrTime(<<"0", "1", ":", "0", "0", ":", "0", "0">>)],
      [cpus |-> 1, mem |-> 0, partition |-> "gpu",
       time |-> StrTime(<<"0", "1", ":", "0", "0", ":", "0", "0">>)] }

(* Runs in which sacct answers OUT_OF_MEMORY to every poll; the faults      *)
(* suffice for every package to use all its tries                            *)
InitOom ==
    /\ env = [sinks |-> {}, num_params |-> OomNumParams,
              max_faults |-> OomNumParams * (OomMaxRetries + 1),
              init_options |-> {[raises |-> FALSE, conf |-> c] : c \in OomResourceConfs},
              observations |-> {[raises |-> FALSE, s |-> "OUT_OF_MEMORY",
                                 oom_log |-> FALSE]}]
    /\ properties \in OomProperties
    /\ Constructed

OomSpec == InitOom /\ [][Next]_vars

(* Job properties of the runs that exercise the failure thresholds:        *)
(* thresholds 0 (the minimum of the schema), 0.5 and 0.25                   *)
(* (config.DEFAULT_FAILURE_THRESHOLD), evaluated from the first, second or  *)
(* third processed package on                                               *)
ThresholdProperties ==
    {[max_retries |-> 0, exp_backoff_factor |-> 4,
      failure_threshold |-> t, failure_threshold_activation |-> a] :
        t \in {[num |-> 0, den |-> 1], [num |-> 1, den |-> 2], [num |-> 1, den |-> 4]},
        a \in 1..3}

(* Runs in which any initialisation can fail and any job can complete,      *)
(* fail or still be running                                                  *)
InitThreshold ==
    /\ env = [sinks |-> {}, num_params |-> NumParams, max_faults |-> NumParams,
              init_options |-> InitOptions,
              observations |-> {[raises |-> FALSE, s |-> st, oom_log |-> FALSE] :
                                   st \in {"COMPLETED", "FAILED", "RUNNING"}}]
    /\ properties \in ThresholdProperties
    /\ Constructed

ThresholdSpec == InitThreshold /\ [][Next]_vars

(* Resource configurations of the runs on the io partition, and one that    *)
(* leaves the partition to SlurmConfig                                       *)
IoResourceConfs ==
    { [cpus |-> 1, mem |-> 0, partition |-> "io",
       time |-> StrTime(<<"0", "1", ":", "0", "0", ":", "0", "0">>)],
      [cpus |-> 2, mem |-> 0, partition |-> "io",
       time |-> StrTime(<<"0", "2", ":", "0", "0", ":", "0", "0">>)],
      [cpus |-> 2, mem |-> 0, partition |-> None,
       time |-> StrTime(<<"0", "2", ":", "0", "0", ":", "0", "0">>)] }

(* Runs with packages on the io partition *)
InitIo ==
    /\ env = [sinks |-> {}, num_params |-> NumParams, max_faults |-> MaxFaults,
              init_options |-> {[raises |-> FALSE, conf |-> c] : c \in IoResourceConfs},
              observations |-> {[raises |-> FALSE, s |-> st, oom_log |-> FALSE] :
                                   st \in {"COMPLETED", "FAILED", "RUNNING", "NODE_FAIL"}}]
    /\ properties \in Properties
    /\ Constructed

IoSpec == InitIo /\ [][Next]_vars

(* Runs in which sacct reports jobs that completed, run, lost their node,   *)
(* are suspended or were requeued by the cluster                             *)
InitRetry ==
    /\ env = [sinks |-> {}, num_params |-> NumParams, max_faults |-> MaxFaults,
              init_options |-> {[raises |-> FALSE, conf |-> c] : c \in ResourceConfs},
              observations |-> {[raises |-> FALSE, s |-> st, oom_log |-> FALSE] :
                                   st \in {"COMPLETED", "RUNNING", "NODE_FAIL", "SUSPENDED",
                                           "REQUEUED"}}]
    /\ properties \in Properties
    /\ Constructed

RetrySpec == InitRetry /\ [][Next]_vars

(* A notification of main has returned or raised *)
notified(r, next) ==
    /\ slack' = r.slack
    /\ IF r.exc # "none" THEN pc' = "crashed" /\ exception' = r.exc
       ELSE pc' = next /\ exception' = exception
    /\ UNCHANGED <<env, properties, work_packages, n_wps, n_init_failed, chunks, todo,
                   next_job_id, sbatch_calls, submit_count, faults, observed, n_panics,
                   cancel_calls, files, probe>>

(* main: notify_start() and init_logger() after init_queue() *)
main_notify_start ==
    /\ pc = "notify_start"
    /\ \E r \in {notify_start(slack, work_packages, sk) : sk \in [1..3 -> env.sinks]} :
         notified(r, "loop")

(* main: notify_status() after monitor(); whether _every_n_polls(100) holds *)
(* depends on the time the run has taken                                     *)
main_notify_status ==
    /\ pc = "notify_status"
    /\ \E r \in {notify_status(slack, work_packages, every_n_polls, sk) :
                    sk \in [1..3 -> env.sinks], every_n_polls \in BOOLEAN} :
         notified(r, "loop")

(* _process_failure: notify_failure(wp) after _decommission(wp) *)
monitor_notify_failure ==
    /\ pc = "notify_failure"
    /\ \E r \in {notify_failure(slack, sk) : sk \in [1..1 -> env.sinks]} :
         notified(r, "monitor")

(* main: notify_done() and cleanup() after persist_results() *)
main_notify_done ==
    /\ pc = "notify_done"
    /\ \E r \in {notify_done(slack, work_packages, every_n_polls, sk) :
                    sk \in [1..5 -> env.sinks], every_n_polls \in BOOLEAN} :
         notified(r, "done")

(* Runs with a chat sink that can fail at every call *)
InitNotify ==
    /\ env = [sinks |-> SinkAnswers, num_params |-> NumParams, max_faults |-> MaxFaults,
              init_options |-> InitOptions,
              observations |-> {[raises |-> FALSE, s |-> st, oom_log |-> FALSE] :
                                   st \in {"COMPLETED", "FAILED", "RUNNING"}}]
    /\ properties \in Properties
    /\ Constructed

NotifyNext ==
    \/ Next
    \/ main_notify_start
    \/ main_notify_status
    \/ monitor_notify_failure
    \/ main_notify_done

NotifySpec == InitNotify /\ [][NotifyNext]_vars

----------------------------------------------------------------------------
(* Functions of the cluster adapter, of the resource policy and of the      *)
(* scheduler called on their own                                             *)

MaxOutputLen == 2       \* the sacct output has at most this many items

(* What sacct can print: the names of the statuses, other words, blanks and *)
(* line breaks                                                               *)
OutputItems == Status \cup {"completed", "by", "+", " ", "\n"}

Outputs == UNION {[1..n -> OutputItems] : n \in 0..MaxOutputLen}

(* subprocess.run(...).returncode: 0, the exit code 1 of the command, and   *)
(* -15 for a command terminated by signal 15                                 *)
Returncodes == {0, 1, 0 - 15}

DigitChar(k) ==
    CASE k = 0 -> "0" [] k = 1 -> "1" [] k = 2 -> "2" [] k = 3 -> "3" [] k = 4 -> "4"
      [] k = 5 -> "5" [] k = 6 -> "6" [] k = 7 -> "7" [] k = 8 -> "8" [] k = 9 -> "9"

RECURSIVE Digits(_)
Digits(n) == IF n < 10 THEN <<DigitChar(n)>> ELSE Append(Digits(n \div 10), DigitChar(n % 10))

(* A field of a time string, with a leading zero if pad *)
Field(n, pad) == IF pad /\ n < 10 THEN <<"0">> \o Digits(n) ELSE Digits(n)

(* The time strings of the forms that the docstring of parse_time lists *)
TimeForms == {"M", "M:S", "H:M:S", "D-H", "D-H:M", "D-H:M:S"}

format_time(form, d, h, m, s, pad) ==
    CASE form = "M" -> Field(m, pad)
      [] form = "M:S" -> Field(m, pad) \o <<":">> \o Field(s, pad)
      [] form = "H:M:S" -> Field(h, pad) \o <<":">> \o Field(m, pad) \o <<":">> \o Field(s, pad)
      [] form = "D-H" -> Digits(d) \o <<"-">> \o Field(h, pad)
      [] form = "D-H:M" -> Digits(d) \o <<"-">> \o Field(h, pad) \o <<":">> \o Field(m, pad)
      [] form = "D-H:M:S" -> Digits(d) \o <<"-">> \o Field(h, pad) \o <<":">> \o Field(m, pad)
                               \o <<":">> \o Field(s, pad)

TimeInput(form, d, h, m, s, pad) ==
    [form |-> form, d |-> d, h |-> h, m |-> m, s |-> s,
     time |-> StrTime(format_time(form, d, h, m, s, pad))]

(* The values of the fields: within their unit, at its end and beyond it *)
FieldValues == {0, 1, 5, 10, 30, 60}

TimeInputs ==
    {[form |-> None, d |-> 0, h |-> 0, m |-> 0, s |-> 0, time |-> NoneTime]}
      \cup {TimeInput("M", 0, 0, m, 0, pad) : m \in FieldValues, pad \in BOOLEAN}
      \cup {TimeInput("M:S", 0, 0, m, s, pad) :
               m \in FieldValues, s \in FieldValues, pad \in BOOLEAN}
      \cup {TimeInput("H:M:S", 0, h, m, s, pad) :
               h \in FieldValues, m \in FieldValues, s \in FieldValues, pad \in BOOLEAN}
      \cup {TimeInput("D-H", d, h, 0, 0, pad) :
               d \in FieldValues, h \in FieldValues, pad \in BOOLEAN}
      \cup {TimeInput("D-H:M", d, h, m, 0, pad) :
               d \in FieldValues, h \in FieldValues, m \in FieldValues, pad \in BOOLEAN}
      \cup {TimeInput("D-H:M:S", d, h, m, s, pad) :
               d \in {0, 1}, h \in FieldValues, m \in FieldValues, s \in FieldValues,
               pad \in BOOLEAN}

(* Time limits around the limits of the QoS classes, 24 hours and 7 days *)
QosTimes ==
    {NoneTime}
      \cup {StrTime(format_time("H:M:S", 0, h, m, s, TRUE)) :
               h \in {1, 24, 168}, m \in {0, 1}, s \in {0, 1, 30, 31}}
      \cup {StrTime(format_time("D-H", d, h, 0, 0, TRUE)) : d \in {0, 1, 7, 8}, h \in {0, 1}}
      \cup {StrTime(format_time("M", 0, 0, m, 0, FALSE)) : m \in {1440, 1441, 10080, 10081}}

(* The resource policy of config.py.  A path of a files rule is its text and *)
(* the variable of its one {{var}}, None for a path without variable; the   *)
(* params of a bundle are a function from names to values.                   *)

MaxFiles == 2           \* a directory or a pattern holds at most this many files

FileSizes == {0, 5, 20}

(* What os.path, glob and rglob find at a path: nothing, an entry below a   *)
(* directory that may not be searched, a regular file, a directory or the   *)
(* matches of a pattern; sizes are the sizes of the regular files found      *)
Entries ==
    {[kind |-> k, sizes |-> <<>>] : k \in {"missing", "denied"}}
      \cup {[kind |-> "file", sizes |-> <<n>>] : n \in FileSizes}
      \cup {[kind |-> k, sizes |-> ss] :
               k \in {"dir", "pattern"}, ss \in UNION {[1..n -> FileSizes] : n \in 0..MaxFiles}}

RECURSIVE Sum(_)
Sum(ns) == IF ns = <<>> THEN 0 ELSE Head(ns) + Sum(Tail(ns))

(* config._interpolate_variables: str.replace raises TypeError for the None *)
(* that params.get returns for a variable that the params do not hold        *)
_interpolate_variables(path, params) ==
    IF path.var = None THEN [exc |-> "none", val |-> <<path.text>>]
    ELSE IF path.var \in DOMAIN params
         THEN [exc |-> "none", val |-> <<path.text, params[path.var]>>]
         ELSE [exc |-> "TypeError", val |-> <<>>]

(* config._files_size: glob.glob for a pattern, rglob for a directory, else *)
(* the path itself; only what os.path.isfile accepts is summed, and isfile   *)
(* answers False for a path that does not exist or may not be reached        *)
_files_size(path, fs) ==
    IF fs[path].kind \in {"pattern", "dir", "file"} THEN Sum(fs[path].sizes) ELSE 0

(* size >= min and size <= max with the defaults 0 and float('inf') *)
size_in_range(size, file_config) ==
    /\ size >= (IF file_config.size_min = NoneInt THEN 0 ELSE file_config.size_min)
    /\ file_config.size_max = NoneInt \/ size <= file_config.size_max

(* {**default_resource_config, **sc['resources']} *)
overlay(default, resources) ==
    [k \in DOMAIN default \cup DOMAIN resources |->
        IF k \in DOMAIN resources THEN resources[k] ELSE default[k]]

RECURSIVE special_cases(_, _, _, _)
special_cases(default, cases, params, fs) ==
    IF cases = <<>> THEN [exc |-> "none", conf |-> default]
    ELSE IF ~Head(cases).has_files THEN special_cases(default, Tail(cases), params, fs)
    ELSE LET path == _interpolate_variables(Head(cases).files.path, params) IN
         IF path.exc # "none" THEN [exc |-> path.exc, conf |-> default]
         ELSE IF size_in_range(_files_size(path.val, fs), Head(cases).files)
         THEN [exc |-> "none", conf |-> overlay(default, Head(cases).resources)]
         ELSE special_cases(default, Tail(cases), params, fs)

(* config.get_resource_config; fs is the file system *)
get_resource_config(job_config, params, fs) ==
    special_cases(job_config.resources, job_config.special_cases, params, fs)

(* Special cases: a files rule on a path with a variable and no sizes, a    *)
(* files rule on a fixed path with both sizes, and a case without files      *)
RuleOnVariable ==
    [has_files |-> TRUE,
     files |-> [path |-> [text |-> "data", var |-> "city"],
                size_min |-> NoneInt, size_max |-> NoneInt],
     resources |-> [cpus |-> 4]]

RuleOnSizes ==
    [has_files |-> TRUE,
     files |-> [path |-> [text |-> "data", var |-> None], size_min |-> 10, size_max |-> 20],
     resources |-> [mem |-> 8000]]

CaseWithoutFiles ==
    [has_files |-> FALSE,
     files |-> [path |-> [text |-> "data", var |-> None],
                size_min |-> NoneInt, size_max |-> NoneInt],
     resources |-> [cpus |-> 8]]

JobConfigs ==
    {[resources |-> CHOOSE c \in ResourceConfs : c.cpus = 1, special_cases |-> cases] :
        cases \in {<<>>, <<RuleOnVariable>>, <<RuleOnSizes>>,
                   <<CaseWithoutFiles, RuleOnVariable>>, <<RuleOnSizes, RuleOnVariable>>}}

(* The params of a bundle with and without the variable of the path *)
Params == {[city |-> "berlin"], [country |-> "germany"]}

(* File systems that hold the same entry at every interpolated path *)
FileSystems ==
    {[path \in {<<"data">>, <<"data", "berlin">>} |-> e] : e \in Entries}

(* Scheduler._every_n_polls on a scheduler of the given poll_interval whose *)
(* run has lasted duration seconds                                           *)

MaxDuration == 100      \* the runs last at most this many seconds

(* Variant of round that cuts the fraction off *)
round_down(a, b) == a \div b

(* round(a / b) of Python: to the nearest integer, a tie to the even one *)
round(a, b) ==
    IF 2 * (a % b) < b THEN a \div b
    ELSE IF 2 * (a % b) > b THEN a \div b + 1
    ELSE IF (a \div b) % 2 = 0 THEN a \div b ELSE a \div b + 1

(* Scheduler._every_n_polls *)
_every_n_polls(poll_interval, duration, n) ==
    (poll_interval * round(duration, poll_interval)) % (poll_interval * n) = 0

PollIntervals == {4, 9, 10}

PollCounts == {1, 2, 11, 12, 25}

(* The requests of cpus and memory around the limits of the partitions *)
CpuRequests ==
    {1, MAX_CPUS, MAX_CPUS + 1, MAX_BROADWELL_CPUS, MAX_BROADWELL_CPUS + 1,
     2 * MAX_BROADWELL_CPUS}

MemRequests ==
    {0, MAX_MEM, MAX_MEM + 1, MAX_BROADWELL_MEM, MAX_BROADWELL_MEM + 1, MAX_GPU_MEM,
     MAX_GPU_MEM + 1, 2 * MAX_GPU_MEM}

Probe(fn, arg) == [fn |-> fn, arg |-> arg, done |-> FALSE, result |-> None]

Probes ==
    {Probe("status", [returncode |-> c, stdout |-> o, stderr |-> "some-error"]) :
        c \in Returncodes, o \in Outputs}
      \cup {Probe("parse_time", t) : t \in TimeInputs}
      \cup {Probe("SlurmConfig", [partition |-> p, time |-> t]) :
                p \in {None, "io", "gpu"}, t \in QosTimes}
      \cup {Probe("get_resource_config", [job_config |-> j, params |-> ps, fs |-> fs]) :
                j \in JobConfigs, ps \in Params, fs \in FileSystems}
      \cup {Probe("_every_n_polls", [poll_interval |-> b, duration |-> d, n |-> n]) :
                b \in PollIntervals, d \in 0..MaxDuration, n \in PollCounts}
      \cup {Probe("sbatch_workfile", [cpus |-> c, mem |-> m]) :
                c \in CpuRequests, m \in MemRequests}

(* One call of one function of the adapter; no Scheduler runs *)
InitAdapter ==
    /\ env = [sinks |-> {}, num_params |-> 0, max_faults |-> 0, init_options |-> {},
              observations |-> {}]
    /\ properties = [max_retries |-> 0, exp_backoff_factor |-> 4,
                     failure_threshold |-> [num |-> 3, den |-> 5],
                     failure_threshold_activation |-> 1]
    /\ ConstructedScheduler
    /\ probe \in Probes

returned(result) ==
    /\ probe' = [fn |-> probe.fn, arg |-> probe.arg, done |-> TRUE, result |-> result]
    /\ UNCHANGED <<env, properties, work_packages, n_wps, n_init_failed, pc, chunks, todo,
                   next_job_id, sbatch_calls, submit_count, faults, observed, n_panics,
                   cancel_calls, files, slack, exception>>

(* slurm.status(job_id) *)
status_call ==
    /\ probe.fn = "status" /\ ~probe.done
    /\ \E r \in {status(probe.arg)} : returned(r)

(* slurm.parse_time(time_str) *)
parse_time_call ==
    /\ probe.fn = "parse_time" /\ ~probe.done
    /\ \E r \in {parse_time(probe.arg.time)} : returned(r)

(* SlurmConfig(time=..., partition=...) with the defaults cpus=1, mem=0,     *)
(* array=None, qos=None                                                      *)
SlurmConfig_call ==
    /\ probe.fn = "SlurmConfig" /\ ~probe.done
    /\ \E r \in {SlurmConfig(probe.arg.time, 1, 0, 0, probe.arg.partition)} : returned(r)

(* config.get_resource_config(job_config, params) *)
get_resource_config_call ==
    /\ probe.fn = "get_resource_config" /\ ~probe.done
    /\ \E r \in {get_resource_config(probe.arg.job_config, probe.arg.params, probe.arg.fs)} :
         returned(r)

(* Scheduler._every_n_polls(n) *)
_every_n_polls_call ==
    /\ probe.fn = "_every_n_polls" /\ ~probe.done
    /\ \E r \in {_every_n_polls(probe.arg.poll_interval, probe.arg.duration, probe.arg.n)} :
         returned(r)

(* SlurmConfig(cpus=..., mem=...) without partition, handed to              *)
(* slurm.sbatch_workfile, which calls validate_and_adjust on it              *)
sbatch_workfile_call ==
    /\ probe.fn = "sbatch_workfile" /\ ~probe.done
    /\ \E c \in {SlurmConfig(StrTime(<<"0", "1", ":", "0", "0", ":", "0", "0">>),
                              probe.arg.cpus, probe.arg.mem, 0, None)} :
         \E r \in {sbatch_workfile(c.conf, TRUE, 1)} : returned(r)

AdapterNext ==
    \/ status_call
    \/ parse_time_call
    \/ SlurmConfig_call
    \/ get_resource_config_call
    \/ _every_n_polls_call
    \/ sbatch_workfile_call

AdapterSpec == InitAdapter /\ [][AdapterNext]_vars

----------------------------------------------------------------------------
(* Properties of the scheduler *)

(* C1: no exception escapes Scheduler.main, whatever the cluster answers   *)
(* to sbatch, sacct and scancel during schedule, monitor and panic: the    *)
(* run never stops on an exception.                                         *)
C1_NoExceptionEscapes == pc # "crashed"

(* C2: every run terminates: eventually main has left its loop and every   *)
(* package is SUCCEEDED or FAILED, for every max_retries >= 0.             *)
C2_EveryRunTerminates ==
    <>(/\ pc = "done"
       /\ \A i \in DOMAIN work_packages :
            work_packages[i].status \in {"SUCCEEDED", "FAILED"})

(* C3: n_tries never exceeds max_retries + 1, no package is handed to      *)
(* sbatch more than max_retries + 1 times, and a package waiting for       *)
(* resubmission has used at most max_retries tries (a requeue at           *)
(* n_tries = max_retries + 1 makes it FAILED instead).                     *)
C3_RetryLimit ==
    \A i \in DOMAIN work_packages :
        /\ work_packages[i].n_tries <= properties.max_retries + 1
        /\ submit_count[i] <= properties.max_retries + 1
        /\ (work_packages[i].status = "PENDING" /\ work_packages[i].job_id = NoneId)
              => work_packages[i].n_tries <= properties.max_retries

(* C3 witness: a package that used all its max_retries + 1 >= 2 tries and  *)
(* was made FAILED by the requeue after a NODE_FAIL.                       *)
C3_Witness ==
    \E i \in DOMAIN work_packages :
        /\ properties.max_retries >= 1
        /\ work_packages[i].status = "FAILED"
        /\ work_packages[i].slurm_status = "NODE_FAIL"
        /\ work_packages[i].error_msg = None
        /\ work_packages[i].n_tries = properties.max_retries + 1
        /\ submit_count[i] = properties.max_retries + 1

(* C4: for every package, the number of archived job ids plus one if a     *)
(* job id is set equals n_tries, also after a failed submission and for a  *)
(* package whose initialisation failed.                                     *)
C4_TriesAccounting ==
    \A i \in DOMAIN work_packages :
        Len(work_packages[i].old_job_ids)
          + (IF work_packages[i].job_id # NoneId THEN 1 ELSE 0)
        = work_packages[i].n_tries

(* C4 witness: a package that was requeued and whose resubmission was      *)
(* rejected by sbatch.                                                      *)
C4_Witness ==
    \E i \in DOMAIN work_packages :
        /\ work_packages[i].error_msg = "sbatch error"
        /\ work_packages[i].status = "FAILED"
        /\ work_packages[i].n_tries >= 1
        /\ work_packages[i].job_id = NoneId

(* C5 as stated: between scheduler operations, every package submitted at  *)
(* least once has len(old_job_ids) = n_tries - 1, also after a requeue and *)
(* before the next schedule pass.                                           *)
C5_OldJobIdsOneLess ==
    pc = "loop" =>
        \A i \in DOMAIN work_packages :
            work_packages[i].n_tries >= 1
              => Len(work_packages[i].old_job_ids) = work_packages[i].n_tries - 1

(* C5 amended: for a package submitted at least once, len(old_job_ids) is  *)
(* n_tries - 1 while its job id is set and n_tries while its job id is     *)
(* null, i.e. from a requeue until the next successful submission.         *)
C5_OldJobIdsByJobId ==
    \A i \in DOMAIN work_packages :
        work_packages[i].n_tries >= 1
          => Len(work_packages[i].old_job_ids) =
               IF work_packages[i].job_id # NoneId
               THEN work_packages[i].n_tries - 1
               ELSE work_packages[i].n_tries

(* C5 witness: after a monitor pass, a requeued package waits for the next *)
(* schedule pass with its job id archived.                                  *)
C5_Witness ==
    /\ pc = "loop"
    /\ \E i \in DOMAIN work_packages :
        /\ work_packages[i].status = "PENDING"
        /\ work_packages[i].job_id = NoneId
        /\ work_packages[i].n_tries >= 1
        /\ Len(work_packages[i].old_job_ids) = work_packages[i].n_tries

(* C6: a SUCCEEDED package has a job id and the slurm status COMPLETED,    *)
(* and a package becomes SUCCEEDED only in the monitor step that polls it  *)
(* and observes COMPLETED.                                                  *)
C6_SucceededOnlyByCompleted ==
    /\ [](\A i \in DOMAIN work_packages :
            work_packages[i].status = "SUCCEEDED"
              => /\ work_packages[i].job_id # NoneId
                 /\ work_packages[i].slurm_status = "COMPLETED")
    /\ [][\A i \in DOMAIN work_packages :
            (work_packages[i].status # "SUCCEEDED"
               /\ work_packages'[i].status = "SUCCEEDED")
              => /\ pc = "monitor"
                 /\ todo # <<>>
                 /\ i = Head(todo)
                 /\ work_packages[i].status = "PENDING"
                 /\ work_packages'[i].slurm_status = "COMPLETED"]_vars

(* C6 witness: a package that succeeded on a resubmission.                 *)
C6_Witness ==
    \E i \in DOMAIN work_packages :
        /\ work_packages[i].status = "SUCCEEDED"
        /\ Len(work_packages[i].old_job_ids) >= 1

(* C7: SUCCEEDED and FAILED are absorbing: no step changes the status,     *)
(* job id, n_tries, old job ids or resources of a terminal package, and    *)
(* the packages still to be polled or submitted in a pass are PENDING      *)
(* (those to be submitted without a job id).                                *)
C7_TerminalAbsorbing ==
    /\ [](/\ pc = "monitor"
             => \A i \in Range(todo) : work_packages[i].status = "PENDING"
          /\ pc = "schedule"
             => \A c \in Range(chunks) : \A i \in Range(c) :
                  /\ work_packages[i].status = "PENDING"
                  /\ work_packages[i].job_id = NoneId)
    /\ [][\A i \in DOMAIN work_packages :
            work_packages[i].status \in {"SUCCEEDED", "FAILED"}
              => /\ work_packages'[i].status = work_packages[i].status
                 /\ work_packages'[i].job_id = work_packages[i].job_id
                 /\ work_packages'[i].n_tries = work_packages[i].n_tries
                 /\ work_packages'[i].old_job_ids = work_packages[i].old_job_ids
                 /\ ResourceKey(work_packages'[i]) = ResourceKey(work_packages[i])
                 /\ submit_count'[i] = submit_count[i]]_vars

(* C7 witness: in a later monitor pass a resubmitted package is about to   *)
(* be polled while another package has been SUCCEEDED since the first      *)
(* pass (the resubmitted package accounts for the only fault of the run).  *)
C7_Witness ==
    /\ pc = "monitor"
    /\ faults = 1
    /\ \E i \in DOMAIN work_packages : \E j \in Range(todo) :
        /\ work_packages[i].status = "SUCCEEDED"
        /\ work_packages[j].n_tries >= 2

(* C8: once init_queue has run, the PENDING, SUCCEEDED and FAILED packages *)
(* add up to n_wps, and no step increases the number of PENDING packages.  *)
C8_Conservation ==
    /\ [](pc # "init_queue"
            => Len(pending_work(work_packages)) + Len(succeeded_work(work_packages))
                 + Len(failed_work(work_packages)) = n_wps)
    /\ [][pc # "init_queue"
            => Len(pending_work(work_packages')) <= Len(pending_work(work_packages))]_vars

(* C8 witness: after a monitor pass, with a package that failed its        *)
(* initialisation, one package has succeeded and one is still PENDING.     *)
C8_Witness ==
    /\ pc = "loop"
    /\ n_init_failed >= 1
    /\ succeeded_work(work_packages) # <<>>
    /\ pending_work(work_packages) # <<>>

C10_OneSubmissionPerChunk ==
    LET rest == IF pc = "schedule" THEN chunks ELSE <<>>
        keys == {c.keys[1] : c \in Range(sbatch_calls)}
                  \cup {ResourceKey(work_packages[c[1]]) : c \in Range(rest)}
        members(key) ==
            {i \in DOMAIN work_packages :
                \/ \E c \in Range(sbatch_calls) : \E k \in DOMAIN c.wps :
                      c.wps[k] = i /\ c.keys[k] = key
                \/ \E c \in Range(rest) :
                      i \in Range(c) /\ ResourceKey(work_packages[i]) = key}
        submissions(key) ==
            Cardinality({n \in DOMAIN sbatch_calls : sbatch_calls[n].keys[1] = key})
              + Cardinality({n \in DOMAIN rest :
                               ResourceKey(work_packages[rest[n][1]]) = key})
    IN  /\ pc = "schedule"
           => \A i \in Range(queued_work(work_packages)) :
                Cardinality({x \in (DOMAIN chunks) \X (1..Len(work_packages)) :
                               /\ x[2] <= Len(chunks[x[1]])
                               /\ chunks[x[1]][x[2]] = i}) = 1
        /\ \A key \in keys :
             submissions(key) =
               (Cardinality(members(key)) + MAX_ARRAY_SIZE - 1) \div MAX_ARRAY_SIZE

(* C10 witness: a completed schedule pass that issued two submissions for  *)
(* three packages in two resource classes.                                  *)
C10_Witness ==
    /\ pc = "monitor"
    /\ Len(sbatch_calls) = 2
    /\ Len(sbatch_calls[1].wps) + Len(sbatch_calls[2].wps) = 3
    /\ sbatch_calls[1].keys[1] # sbatch_calls[2].keys[1]

(* C11: when monitor observes TIMEOUT for a package below the retry limit, *)
(* its time limit becomes exp_backoff_factor times the previous limit (in  *)
(* minutes), the package is requeued, and the next schedule pass can       *)
(* submit it with that limit: the SlurmConfig of the resubmission is built *)
(* without an exception.                                                    *)
C11_TimeoutBackoff ==
    [][\A i \in DOMAIN work_packages :
         (/\ pc = "monitor" /\ todo # <<>> /\ i = Head(todo)
          /\ ~observed'.raises /\ observed'.s = "TIMEOUT"
          /\ work_packages[i].n_tries <= properties.max_retries)
           => /\ work_packages'[i].status = "PENDING"
              /\ work_packages'[i].job_id = NoneId
              /\ work_packages'[i].old_job_ids =
                   Append(work_packages[i].old_job_ids, work_packages[i].job_id)
              /\ work_packages'[i].time =
                   IntTime(minutes(work_packages[i].time).val * properties.exp_backoff_factor)
              /\ SlurmConfig(work_packages'[i].time, work_packages'[i].cpus,
                             work_packages'[i].mem, 0,
                             work_packages'[i].partition).exc = "none"]_vars

(* C12: OOM policy off the gpu partition: on OUT_OF_MEMORY the allocation  *)
(* is mem, or cpus * MEM_PER_CPU when mem is 0; at or above MAX_MEM the    *)
(* package becomes FAILED with an error message and keeps its job id and   *)
(* n_tries; below it mem becomes allocation * exp_backoff_factor and the   *)
(* package is requeued, or FAILED when its tries are used up.              *)
C12_OomPolicy ==
    [][\A i \in DOMAIN work_packages :
         (/\ pc = "monitor" /\ todo # <<>> /\ i = Head(todo)
          /\ ~observed'.raises /\ observed'.s = "OUT_OF_MEMORY"
          /\ work_packages[i].partition # "gpu")
           => LET wp == work_packages[i]
                  allocation == IF wp.mem # 0 THEN wp.mem ELSE wp.cpus * MEM_PER_CPU
              IN  /\ work_packages'[i].n_tries = wp.n_tries
                  /\ pc' = "monitor"
                  /\ IF allocation >= MAX_MEM
                     THEN /\ work_packages'[i].status = "FAILED"
                          /\ work_packages'[i].error_msg # None
                          /\ work_packages'[i].job_id = wp.job_id
                          /\ work_packages'[i].old_job_ids = wp.old_job_ids
                          /\ work_packages'[i].mem = allocation
                     ELSE /\ work_packages'[i].mem =
                               allocation * properties.exp_backoff_factor
                          /\ IF wp.n_tries <= properties.max_retries
                             THEN /\ work_packages'[i].status = "PENDING"
                                  /\ work_packages'[i].job_id = NoneId
                                  /\ work_packages'[i].old_job_ids =
                                       Append(wp.old_job_ids, wp.job_id)
                             ELSE /\ work_packages'[i].status = "FAILED"
                                  /\ work_packages'[i].job_id = wp.job_id]_vars

(* C12 witness: a package that grew to MAX_MEM over two retries and was    *)
(* made FAILED at the ceiling, with a try to spare.                         *)
C12_Witness ==
    \E i \in DOMAIN work_packages :
        /\ work_packages[i].status = "FAILED"
        /\ work_packages[i].error_msg = "ran out of memory"
        /\ work_packages[i].mem = MAX_MEM
        /\ Len(work_packages[i].old_job_ids) = 2
        /\ work_packages[i].n_tries <= properties.max_retries

(* C13: on the gpu partition an observed OUT_OF_MEMORY leaves the package  *)
(* either requeued with more memory or FAILED, and the monitor pass goes   *)
(* on.                                                                      *)
C13_GpuOomPolicy ==
    [][\A i \in DOMAIN work_packages :
         (/\ pc = "monitor" /\ todo # <<>> /\ i = Head(todo)
          /\ ~observed'.raises /\ observed'.s = "OUT_OF_MEMORY"
          /\ work_packages[i].partition = "gpu")
           => /\ pc' = "monitor"
              /\ \/ work_packages'[i].status = "FAILED"
                 \/ /\ work_packages'[i].status = "PENDING"
                    /\ work_packages'[i].job_id = NoneId
                    /\ work_packages'[i].mem > work_packages[i].mem]_vars

(* C14 as stated: a single package with cpus = 1 and mem = 0 whose every   *)
(* poll returns OUT_OF_MEMORY ends FAILED with n_tries = max_retries + 1   *)
(* after exactly max_retries + 1 submissions.                               *)
C14_OomUntilRetryLimit ==
    (/\ pc = "done"
     /\ n_wps = 1
     /\ work_packages[1].cpus = 1
     /\ work_packages[1].partition = None
     /\ work_packages[1].slurm_status = "OUT_OF_MEMORY"
     /\ work_packages[1].error_msg # "sbatch error")
      => /\ work_packages[1].status = "FAILED"
         /\ work_packages[1].n_tries = properties.max_retries + 1
         /\ submit_count[1] = properties.max_retries + 1

(* C14 amended: such a package ends FAILED after k submissions with        *)
(* n_tries = k, where k is the least number in 1..max_retries + 1 that is  *)
(* max_retries + 1 or has MEM_PER_CPU * exp_backoff_factor^(k-1) >=        *)
(* MAX_MEM: the retry limit or the memory ceiling, whichever comes first.  *)
(* Its memory is MEM_PER_CPU * exp_backoff_factor^k when the retry limit   *)
(* ended it and MEM_PER_CPU * exp_backoff_factor^(k-1) at the ceiling.     *)
C14_OomUntilLimitOrCeiling ==
    (/\ pc = "done"
     /\ n_wps = 1
     /\ work_packages[1].cpus = 1
     /\ work_packages[1].partition = None
     /\ work_packages[1].slurm_status = "OUT_OF_MEMORY"
     /\ work_packages[1].error_msg # "sbatch error")
      => LET f == properties.exp_backoff_factor
             stops(k) == k = properties.max_retries + 1
                           \/ MEM_PER_CPU * f^(k - 1) >= MAX_MEM
             k == CHOOSE n \in 1..(properties.max_retries + 1) :
                     stops(n) /\ \A m \in 1..(n - 1) : ~stops(m)
         IN  /\ work_packages[1].status = "FAILED"
             /\ work_packages[1].n_tries = k
             /\ submit_count[1] = k
             /\ work_packages[1].mem =
                  IF MEM_PER_CPU * f^(k - 1) >= MAX_MEM
                  THEN MEM_PER_CPU * f^(k - 1) ELSE MEM_PER_CPU * f^k

(* C14 witness: max_retries = 3 and exp_backoff_factor = 2: the package    *)
(* was submitted four times and ended FAILED with n_tries = 4.             *)
C14_Witness ==
    /\ pc = "done"
    /\ n_wps = 1
    /\ properties.max_retries = 3
    /\ properties.exp_backoff_factor = 2
    /\ work_packages[1].cpus = 1
    /\ work_packages[1].partition = None
    /\ work_packages[1].status = "FAILED"
    /\ work_packages[1].n_tries = 4
    /\ submit_count[1] = 4

(* C15: a package made FAILED because sacct reported a status outside      *)
(* COMPLETED, TIMEOUT, OUT_OF_MEMORY, CANCELLED, FAILED, RETRYABLE and     *)
(* ACTIVE (here UNKNOWN) carries an error message.                          *)
C15_UnknownStatusDiagnostic ==
    \A i \in DOMAIN work_packages :
        (work_packages[i].status = "FAILED" /\ work_packages[i].slurm_status = "UNKNOWN")
          => work_packages[i].error_msg # None

(* C16: on CANCELLED, a package whose stderr log reports the exceeded      *)
(* memory limit is left exactly as an OUT_OF_MEMORY observation would      *)
(* leave it (but for the recorded status); any other package becomes       *)
(* FAILED with job id, n_tries, old job ids and resources unchanged.       *)
C16_Cancelled ==
    [][\A i \in DOMAIN work_packages :
         (/\ pc = "monitor" /\ todo # <<>> /\ i = Head(todo)
          /\ ~observed'.raises /\ observed'.s = "CANCELLED")
           => IF observed'.oom_log
              THEN /\ work_packages'[i] =
                        [monitor_wp(work_packages[i],
                                    [raises |-> FALSE, s |-> "OUT_OF_MEMORY",
                                     oom_log |-> FALSE]).wp
                           EXCEPT !.slurm_status = "CANCELLED"]
              ELSE work_packages'[i] =
                        [work_packages[i] EXCEPT !.status = "FAILED",
                                                 !.slurm_status = "CANCELLED"]]_vars

(* C16 witness: a cancelled package whose log reported the memory limit    *)
(* waits for resubmission with more memory.                                 *)
C16_Witness ==
    /\ observed.s = "CANCELLED"
    /\ observed.oom_log
    /\ \E i \in DOMAIN work_packages :
        /\ work_packages[i].slurm_status = "CANCELLED"
        /\ work_packages[i].status = "PENDING"
        /\ work_packages[i].job_id = NoneId
        /\ work_packages[i].mem = MEM_PER_CPU * work_packages[i].cpus
                                    * properties.exp_backoff_factor

(* C17: on a RETRYABLE status below the retry limit the package is         *)
(* requeued without resizing: the job id moves to old_job_ids, job_id      *)
(* becomes null, and nothing else but the recorded status changes.         *)
C17_RetryWithoutResizing ==
    [][\A i \in DOMAIN work_packages :
         (/\ pc = "monitor" /\ todo # <<>> /\ i = Head(todo)
          /\ ~observed'.raises
          /\ observed'.s \in {"BOOT_FAIL", "NODE_FAIL", "REQUEUED", "REQUEUE_FED",
                              "STOPPED", "SUSPENDED"}
          /\ work_packages[i].n_tries <= properties.max_retries)
           => work_packages'[i] =
                [work_packages[i] EXCEPT
                    !.old_job_ids = Append(@, work_packages[i].job_id),
                    !.job_id = NoneId,
                    !.slurm_status = observed'.s]]_vars

(* C17 witness: a package requeued after NODE_FAIL, still PENDING.         *)
C17_Witness ==
    /\ observed.s = "NODE_FAIL"
    /\ \E i \in DOMAIN work_packages :
        /\ work_packages[i].slurm_status = "NODE_FAIL"
        /\ work_packages[i].status = "PENDING"
        /\ work_packages[i].job_id = NoneId
        /\ Len(work_packages[i].old_job_ids) = 1

(* C18: on an ACTIVE status nothing of the package changes but the         *)
(* recorded cluster status.                                                 *)
C18_ActiveIsNoOp ==
    [][\A i \in DOMAIN work_packages :
         (/\ pc = "monitor" /\ todo # <<>> /\ i = Head(todo)
          /\ ~observed'.raises
          /\ observed'.s \in {"PENDING", "RUNNING", "CONFIGURING", "COMPLETING",
                              "RESIZING"})
           => /\ work_packages'[i] =
                   [work_packages[i] EXCEPT !.slurm_status = observed'.s]
              /\ pc' = "monitor"]_vars

(* C18 witness: a resubmitted package was just seen RUNNING and is still   *)
(* scheduled.                                                               *)
C18_Witness ==
    /\ pc = "monitor"
    /\ observed.s = "RUNNING"
    /\ \E i \in DOMAIN work_packages :
        /\ work_packages[i].slurm_status = "RUNNING"
        /\ work_packages[i].status = "PENDING"
        /\ work_packages[i].job_id # NoneId
        /\ work_packages[i].n_tries = 2

(* C19: when sacct fails for a package, exactly that package becomes       *)
(* FAILED with the error text as error_msg, no other package changes, and  *)
(* the monitor pass goes on with the remaining packages.                    *)
C19_StatusErrorFailsOnePackage ==
    [][\A i \in DOMAIN work_packages :
         (/\ pc = "monitor" /\ todo # <<>> /\ i = Head(todo)
          /\ observed'.raises)
           => /\ work_packages' =
                   [work_packages EXCEPT
                       ![i] = [@ EXCEPT !.status = "FAILED",
                                        !.error_msg = "sacct error"]]
              /\ pc' = "monitor"
              /\ todo' = Tail(todo)
              /\ exception' = "none"]_vars

(* C19 witness: sacct failed for one package (the only fault of the run)   *)
(* and a package polled after it in the same pass has succeeded.           *)
C19_Witness ==
    /\ faults = 1
    /\ \E i, j \in DOMAIN work_packages :
        /\ i < j
        /\ work_packages[i].status = "FAILED"
        /\ work_packages[i].error_msg = "sacct error"
        /\ work_packages[j].status = "SUCCEEDED"

(* C20: when sbatch rejects a chunk, every package of the chunk becomes    *)
(* FAILED with the error text as error_msg, without a job id and with      *)
(* n_tries unchanged, no other package changes, and the schedule pass goes *)
(* on with the remaining chunks.                                            *)
C20_SubmissionErrorFailsChunk ==
    [][(/\ pc = "schedule" /\ chunks # <<>>
        /\ Len(sbatch_calls') = Len(sbatch_calls) + 1
        /\ ~sbatch_calls'[Len(sbatch_calls')].ok)
         => /\ work_packages' =
                 [i \in DOMAIN work_packages |->
                    IF i \in Range(Head(chunks))
                    THEN [work_packages[i] EXCEPT !.status = "FAILED",
                                                  !.error_msg = "sbatch error"]
                    ELSE work_packages[i]]
            /\ \A i \in Range(Head(chunks)) : work_packages[i].job_id = NoneId
            /\ chunks' = Tail(chunks)
            /\ pc' = IF Tail(chunks) = <<>> THEN "monitor" ELSE "schedule"
            /\ exception' = "none"]_vars

(* C20 witness: in one schedule pass sbatch rejected the first chunk and   *)
(* accepted the second.                                                     *)
C20_Witness ==
    /\ pc = "monitor"
    /\ Len(sbatch_calls) = 2
    /\ ~sbatch_calls[1].ok
    /\ sbatch_calls[2].ok
    /\ \A i \in Range(sbatch_calls[1].wps) :
         work_packages[i].status = "FAILED" /\ work_packages[i].job_id = NoneId
    /\ \A i \in Range(sbatch_calls[2].wps) : work_packages[i].job_id # NoneId

PanicMessages ==
    {"Panic! All work packages in queue were canceled.",
     "Panic! All running jobs were canceled."}

(* C21: when _panic returns, no package is PENDING; every package that was *)
(* PENDING is FAILED with an error_msg starting with "Panic!"; slurm.cancel *)
(* was called exactly for the job ids of the packages that were scheduled  *)
(* and for no queued package; SUCCEEDED and FAILED packages are untouched;  *)
(* and after a panic no submission happens in the run.                      *)
C21_PanicSweep ==
    [][/\ (n_panics' = n_panics + 1 /\ pc' # "crashed") =>
            /\ \A i \in DOMAIN work_packages' : work_packages'[i].status # "PENDING"
            /\ pc = "init_queue" =>
                 /\ cancel_calls' = <<>>
                 /\ \A i \in DOMAIN work_packages' :
                      /\ work_packages'[i].status = "FAILED"
                      /\ work_packages'[i].job_id = NoneId
                      /\ work_packages'[i].error_msg \in PanicMessages \cup {"init error"}
            /\ pc # "init_queue" =>
                 /\ \A i \in DOMAIN work_packages :
                      /\ work_packages[i].status = "PENDING" =>
                           /\ work_packages'[i].status = "FAILED"
                           /\ work_packages'[i].error_msg \in PanicMessages
                      /\ work_packages[i].status # "PENDING" =>
                           work_packages'[i] = work_packages[i]
                 /\ \E new \in {SubSeq(cancel_calls', Len(cancel_calls) + 1,
                                         Len(cancel_calls'))} :
                      /\ cancel_calls' = cancel_calls \o new
                      /\ Len(new) = Cardinality({i \in DOMAIN work_packages :
                                                   /\ work_packages[i].status = "PENDING"
                                                   /\ work_packages[i].job_id # NoneId})
                      /\ \A i \in DOMAIN work_packages :
                           (work_packages[i].status = "PENDING"
                              /\ work_packages[i].job_id # NoneId)
                             <=> (\E k \in DOMAIN new :
                                    new[k] = work_packages[i].job_id /\ new[k] # NoneId)
       /\ n_panics >= 1 =>
            /\ submit_count' = submit_count
            /\ next_job_id' = next_job_id
            /\ pc' \notin {"schedule", "monitor"}]_vars

(* C21 witness: a run that ended after a panic at the end of a monitor pass *)
(* which cancelled the job of a scheduled package.                          *)
C21_Witness ==
    /\ pc = "done"
    /\ n_panics = 1
    /\ cancel_calls # <<>>
    /\ \E i \in DOMAIN work_packages :
         /\ work_packages[i].status = "FAILED"
         /\ work_packages[i].error_msg = "Panic! All running jobs were canceled."
         /\ work_packages[i].job_id = cancel_calls[1]

(* C22: cancellation during panic is best-effort: whenever _panic is       *)
(* called, also when scancel fails for a scheduled package, the sweep      *)
(* leaves no package PENDING, has called slurm.cancel for every scheduled  *)
(* package, writes the work state to work.json, and the run goes on to     *)
(* write its result files instead of stopping on the exception.            *)
C22_PanicBestEffort ==
    [][n_panics' = n_panics + 1 =>
         /\ \A i \in DOMAIN work_packages' : work_packages'[i].status # "PENDING"
         /\ Len(cancel_calls') - Len(cancel_calls) = Len(scheduled_work(work_packages))
         /\ files'.work = File(_persist_work_status(work_packages', None))
         /\ pc' # "crashed"]_vars

(* C23: once the queue is initialised with at least one package and        *)
(* n_init_failed / n_wps >= failure_threshold, the scheduler has panicked, *)
(* no package is PENDING and nothing was or is submitted to the cluster;   *)
(* with zero packages no threshold is evaluated (no panic, no exception),  *)
(* nothing is submitted and main goes straight to its end.                 *)
C23_InitFailureThreshold ==
    /\ (n_wps >= 1 /\ n_init_failed * properties.failure_threshold.den
                        >= properties.failure_threshold.num * n_wps) =>
          /\ n_panics = 1
          /\ pc \in {"loop", "done"}
          /\ sbatch_calls = <<>> /\ next_job_id = 1 /\ cancel_calls = <<>>
          /\ \A i \in DOMAIN work_packages :
               /\ work_packages[i].status = "FAILED"
               /\ work_packages[i].job_id = NoneId
               /\ work_packages[i].n_tries = 0
               /\ submit_count[i] = 0
    /\ n_wps = 0 =>
          /\ n_panics = 0
          /\ pc \in {"loop", "done"}
          /\ exception = "none"
          /\ work_packages = <<>> /\ sbatch_calls = <<>> /\ next_job_id = 1

(* C23 witness: a finished run of two packages or more in which the init   *)
(* failure rate equals the threshold and the package whose initialisation  *)
(* succeeded was swept by the panic.                                       *)
C23_Witness ==
    /\ pc = "done"
    /\ n_wps >= 2
    /\ n_init_failed * properties.failure_threshold.den
         = properties.failure_threshold.num * n_wps
    /\ \E i \in DOMAIN work_packages :
         work_packages[i].error_msg = "Panic! All work packages in queue were canceled."

(* C24: at the end of every monitor pass, with runtime_failed = |FAILED| - *)
(* n_init_failed and processed = |SUCCEEDED| + runtime_failed, _panic is   *)
(* called if and only if processed >= failure_threshold_activation and     *)
(* runtime_failed / processed >= failure_threshold; with threshold 0.25    *)
(* and activation 50, 40 successes and 10 failures do not trip it, 40      *)
(* successes and 20 failures do.                                            *)
C24_RuntimeFailureThreshold ==
    [][/\ (pc = "monitor" /\ todo = <<>> /\ pc' # "monitor") =>
            LET runtime_failed ==
                    Cardinality({i \in DOMAIN work_packages :
                                    work_packages[i].status = "FAILED"}) - n_init_failed
                processed ==
                    Cardinality({i \in DOMAIN work_packages :
                                    work_packages[i].status = "SUCCEEDED"}) + runtime_failed
            IN  (n_panics' = n_panics + 1)
                  <=> /\ processed >= properties.failure_threshold_activation
                      /\ runtime_failed * properties.failure_threshold.den
                           >= properties.failure_threshold.num * processed
       /\ ~runtime_rate_of(10, 40 + 10,
                           [failure_threshold |-> [num |-> 1, den |-> 4],
                            failure_threshold_activation |-> 50])
       /\ runtime_rate_of(20, 40 + 20,
                          [failure_threshold |-> [num |-> 1, den |-> 4],
                           failure_threshold_activation |-> 50])]_vars

(* C24 witness: a panic at the end of a monitor pass in which the number   *)
(* of processed packages equals the activation count of two or more and    *)
(* the failure rate equals the threshold.                                   *)
C24_Witness ==
    /\ n_panics = 1
    /\ n_init_failed = 0
    /\ properties.failure_threshold_activation >= 2
    /\ Cardinality({i \in DOMAIN work_packages : work_packages[i].status = "SUCCEEDED"})
         = 1
    /\ Cardinality({i \in DOMAIN work_packages :
                       work_packages[i].error_msg \notin PanicMessages
                         /\ work_packages[i].status = "FAILED"})
         = 1
    /\ properties.failure_threshold = [num |-> 1, den |-> 2]
    /\ \E i \in DOMAIN work_packages :
         work_packages[i].error_msg = "Panic! All running jobs were canceled."

(* C25: when main has returned, no package is PENDING and the result files *)
(* partition the work: a package has exactly one record in                  *)
(* succeeded-work.json if its status is SUCCEEDED and none otherwise,       *)
(* exactly one record in failed-work.json if its status is FAILED and none  *)
(* otherwise, and the two files together hold exactly n_wps records.        *)
C25_ResultFilesPartition ==
    pc = "done" =>
        /\ files.succeeded.written /\ files.failed.written
        /\ n_wps = Len(work_packages)
        /\ Len(files.succeeded.rows) + Len(files.failed.rows) = n_wps
        /\ \A i \in DOMAIN work_packages :
             /\ work_packages[i].status # "PENDING"
             /\ Cardinality({k \in DOMAIN files.succeeded.rows :
                                files.succeeded.rows[k].params = i})
                  = IF work_packages[i].status = "SUCCEEDED" THEN 1 ELSE 0
             /\ Cardinality({k \in DOMAIN files.failed.rows :
                                files.failed.rows[k].params = i})
                  = IF work_packages[i].status = "FAILED" THEN 1 ELSE 0
        /\ \A k \in DOMAIN files.succeeded.rows :
             files.succeeded.rows[k].status = "SUCCEEDED"
        /\ \A k \in DOMAIN files.failed.rows : files.failed.rows[k].status = "FAILED"

(* C25 witness: a finished run of three packages with a record in each of  *)
(* the two files.                                                           *)
C25_Witness ==
    /\ pc = "done"
    /\ files.succeeded.rows # <<>>
    /\ files.failed.rows # <<>>
    /\ n_wps = 3

(* C26: after the successful submission of a chunk of more than one        *)
(* package, every package of the chunk has its own job id "<job_id>_<i>",  *)
(* whether the array was accepted or the submission was degraded on the io *)
(* partition; hence no two scheduled packages ever share a job id.         *)
C26_OwnJobIdPerPackage ==
    /\ \A c \in DOMAIN sbatch_calls :
         (sbatch_calls[c].ok /\ Len(sbatch_calls[c].wps) > 1) =>
             \A k \in DOMAIN sbatch_calls[c].wps :
                 LET wp == work_packages[sbatch_calls[c].wps[k]]
                 IN  (wp.status = "PENDING" /\ wp.job_id # NoneId) =>
                        /\ Len(wp.job_id) = 2
                        /\ wp.job_id[2] = k - 1
    /\ \A i, j \in DOMAIN work_packages :
         (/\ i # j
          /\ work_packages[i].status = "PENDING" /\ work_packages[i].job_id # NoneId
          /\ work_packages[j].status = "PENDING" /\ work_packages[j].job_id # NoneId)
           => work_packages[i].job_id # work_packages[j].job_id

(* C27: on the io partition no sbatch command carries an array option, and *)
(* every package of every chunk, a chunk of one package included, gets log *)
(* paths with the suffix "<job_id>_<i>", i being its index in the chunk.   *)
C27_IoLogPaths ==
    \A c \in DOMAIN sbatch_calls :
        sbatch_calls[c].options.partition = "io" =>
            /\ sbatch_calls[c].options.array = 0
            /\ sbatch_calls[c].ok =>
                 \A k \in DOMAIN sbatch_calls[c].wps :
                     LET wp == work_packages[sbatch_calls[c].wps[k]]
                     IN  (wp.status = "PENDING" /\ wp.job_id # NoneId) =>
                            /\ Len(wp.stdout) = 2
                            /\ wp.stdout[1] = wp.job_id[1]
                            /\ wp.stdout[2] = k - 1

(* C28: slurm.status is a total mapping of the sacct output: it never      *)
(* raises when the command succeeded; empty output yields PENDING; a first *)
(* token that names a member of Status yields that member and any other    *)
(* first token yields UNKNOWN; and a failing sacct command (returncode not *)
(* 0) raises SlurmException carrying its stderr text.                      *)
C28_StatusMapping ==
    (probe.fn = "status" /\ probe.done) =>
        LET p == probe.arg
            r == probe.result
        IN  /\ p.returncode # 0 =>
                 /\ r.exc = "SlurmException"
                 /\ \E k \in DOMAIN r.msg : r.msg[k] = p.stderr
            /\ p.returncode = 0 =>
                 /\ r.exc = "none"
                 /\ p.stdout = <<>> => r.val = "PENDING"
                 /\ (/\ p.stdout # <<>>
                     /\ IsWord(p.stdout[1])
                     /\ Len(p.stdout) > 1 => ~IsWord(p.stdout[2])) =>
                       r.val = IF p.stdout[1] \in Status THEN p.stdout[1] ELSE "UNKNOWN"

(* C29: parse_time returns the duration that the string denotes for every  *)
(* string of the forms M, M:S, H:M:S, D-H, D-H:M, D-H:M:S (a bare integer  *)
(* is minutes, a single field after 'D-' is hours, fields may overflow     *)
(* their unit, a day count of 0 is still the D-H form), and zero for null. *)
C29_ParseTime ==
    (probe.fn = "parse_time" /\ probe.done) =>
        LET t == probe.arg
        IN  /\ probe.result.exc = "none"
            /\ probe.result.secs =
                  CASE t.form = None -> 0
                    [] t.form = "M" -> 60 * t.m
                    [] t.form = "M:S" -> 60 * t.m + t.s
                    [] t.form = "H:M:S" -> 3600 * t.h + 60 * t.m + t.s
                    [] t.form = "D-H" -> 86400 * t.d + 3600 * t.h
                    [] t.form = "D-H:M" -> 86400 * t.d + 3600 * t.h + 60 * t.m
                    [] t.form = "D-H:M:S" -> 86400 * t.d + 3600 * t.h + 60 * t.m + t.s

(* C29 witness: '0-10' parsed as ten hours.                                 *)
C29_Witness ==
    /\ probe.fn = "parse_time" /\ probe.done
    /\ probe.arg.time = StrTime(<<"0", "-", "1", "0">>)
    /\ probe.result.secs = 36000

(* C30: when no QoS is given, SlurmConfig chooses 'io' on the io partition *)
(* and otherwise chooses from parse_time(time), zero for a null time:      *)
(* 'short' up to 24 hours, 'medium' above 24 hours and up to 7 days,       *)
(* 'long' above 7 days.                                                     *)
C30_QosFromWallTime ==
    (probe.fn = "SlurmConfig" /\ probe.done) =>
        /\ probe.result.exc = "none"
        /\ probe.result.conf.qos =
              IF probe.arg.partition = "io" THEN "io"
              ELSE IF parse_time(probe.arg.time).secs <= 24 * 3600 THEN "short"
              ELSE IF parse_time(probe.arg.time).secs <= 7 * 24 * 3600 THEN "medium"
              ELSE "long"

(* C31: when the interpolated path of a files rule does not exist or cannot *)
(* be read, get_resource_config fails (and init_queue turns the failure     *)
(* into a package that is FAILED from the start)                             *)
C31_MissingPathFails ==
    (/\ probe.fn = "get_resource_config" /\ probe.done
     /\ probe.arg.job_config.special_cases # <<>>
     /\ Head(probe.arg.job_config.special_cases).has_files
     /\ \A path \in DOMAIN probe.arg.fs : probe.arg.fs[path].kind \in {"missing", "denied"})
    => probe.result.exc # "none"

(* C32: _every_n_polls(n) is true exactly when the duration of the run,     *)
(* rounded to a nearest multiple of poll_interval, is a multiple of          *)
(* n * poll_interval; for a duration of 100 it is true for poll_interval 4   *)
(* and n = 25, true for poll_interval 9 and n = 11, false for 9 and n = 12   *)
C32_EveryNPolls ==
    (probe.fn = "_every_n_polls" /\ probe.done) =>
        LET b == probe.arg.poll_interval
            d == probe.arg.duration
            Multiples == {b * k : k \in 0..(d \div b + 1)}
            Dist(m) == IF m > d THEN m - d ELSE d - m
            Nearest == {m \in Multiples : \A m2 \in Multiples : Dist(m) <= Dist(m2)}
        IN /\ \E m \in Nearest : probe.result = (m % (probe.arg.n * b) = 0)
           /\ (d = 100 /\ b = 4 /\ probe.arg.n = 25) => probe.result
           /\ (d = 100 /\ b = 9 /\ probe.arg.n = 11) => probe.result
           /\ (d = 100 /\ b = 9 /\ probe.arg.n = 12) => ~probe.result

C32_Witness ==
    /\ probe.fn = "_every_n_polls" /\ probe.done
    /\ probe.arg.duration = 100 /\ probe.arg.poll_interval = 9 /\ probe.arg.n = 11
    /\ probe.result

(* C35: for a request without partition the values after                    *)
(* validate_and_adjust fit the partition chosen for it: 'standard' only     *)
(* for cpus <= 16 and mem <= 64000, 'broadwell' ends with cpus <= 32 and    *)
(* mem <= 128000, 'gpu' (chosen for mem > 128000) ends with cpus <= 16 and  *)
(* mem <= 250000; cpus never exceed 32 nor mem 250000                        *)
C35_FitsPartition ==
    (probe.fn = "sbatch_workfile" /\ probe.done) =>
        LET c == probe.result.conf IN
        /\ c.partition \in {"standard", "broadwell", "gpu"}
        /\ c.partition = "standard" =>
             /\ probe.arg.cpus <= 16 /\ probe.arg.mem <= 64000
             /\ c.cpus = probe.arg.cpus /\ c.mem = probe.arg.mem
        /\ c.partition = "broadwell" => c.cpus <= 32 /\ c.mem <= 128000
        /\ c.partition = "gpu" <=> probe.arg.mem > 128000
        /\ c.partition = "gpu" => c.cpus <= 16 /\ c.mem <= 250000
        /\ c.cpus <= 32 /\ c.mem <= 250000

C35_Witness ==
    /\ probe.fn = "sbatch_workfile" /\ probe.done
    /\ probe.arg.cpus > 32 /\ probe.arg.mem > 250000
    /\ probe.result.conf.partition = "gpu"
    /\ probe.result.conf.cpus = 16 /\ probe.result.conf.mem = 250000

(* C38: a package that a TIMEOUT or OUT_OF_MEMORY observation makes FAILED  *)
(* keeps the time and mem of its last submitted job (the values it has      *)
(* while its job is scheduled)                                               *)
C38_TerminalResources ==
    [][\A i \in DOMAIN work_packages :
         (/\ pc = "monitor" /\ todo # <<>> /\ Head(todo) = i
          /\ work_packages[i].status = "PENDING"
          /\ work_packages'[i].status = "FAILED"
          /\ ~observed'.raises /\ observed'.s \in {"TIMEOUT", "OUT_OF_MEMORY"})
         => /\ work_packages'[i].time = work_packages[i].time
            /\ work_packages'[i].mem = work_packages[i].mem]_vars

(* C39: the scheduler does not panic while no package has failed: not at    *)
(* the end of init_queue when no initialisation failed, not at the end of   *)
(* a monitor pass when no package is FAILED, whatever failure_threshold in  *)
(* [0, 1] and failure_threshold_activation >= 1                              *)
C39_NoPanicWithoutFailure ==
    [][n_panics' > n_panics =>
         IF pc = "init_queue" THEN n_init_failed' > 0
         ELSE failed_work(work_packages) # <<>>]_vars

(* C36: every _submit_work of a schedule pass takes packages that are       *)
(* PENDING without job_id and leaves each PENDING with a job_id, its log    *)
(* paths and one try more, or FAILED; when the pass is over no package is   *)
(* queued, and the monitor pass that follows polls every PENDING package     *)
C36_NothingQueuedAfterSchedule ==
    [][/\ (pc = "schedule" /\ pc' \in {"schedule", "monitor"}) =>
            \A i \in Range(Head(chunks)) :
                /\ work_packages[i].status = "PENDING"
                /\ work_packages[i].job_id = NoneId
                /\ \/ work_packages'[i].status = "FAILED"
                   \/ /\ work_packages'[i].status = "PENDING"
                      /\ work_packages'[i].job_id # NoneId
                      /\ work_packages'[i].stdout # <<>>
                      /\ work_packages'[i].n_tries = work_packages[i].n_tries + 1
       /\ (pc \in {"loop", "schedule"} /\ pc' = "monitor") =>
            /\ queued_work(work_packages') = <<>>
            /\ todo' = pending_work(work_packages')]_vars

C36_Witness ==
    /\ pc = "monitor"
    /\ sbatch_calls # <<>>
    /\ todo = pending_work(work_packages)
    /\ \E i \in Range(todo) : work_packages[i].n_tries = 2
    /\ \E i \in DOMAIN work_packages :
          work_packages[i].status = "FAILED" /\ work_packages[i].error_msg = "sbatch error"

(* C34: when a schedule pass starts, work.json holds every package as the   *)
(* monitor pass before it left it; a package is submitted only while the    *)
(* snapshot in work.json shows it as it is, queued again with its former    *)
(* job id archived                                                           *)
C34_PersistedBeforeResubmission ==
    [][/\ (pc = "loop" /\ pc' \in {"schedule", "monitor"}) =>
            /\ files.work.written
            /\ files.work.rows = [i \in DOMAIN work_packages |-> encode(work_packages, i)]
       /\ (pc = "schedule" /\ sbatch_calls' # sbatch_calls) =>
            \A i \in Range(Head(chunks)) :
                /\ files.work.written
                /\ i \in DOMAIN files.work.rows
                /\ files.work.rows[i].status = "PENDING"
                /\ files.work.rows[i].job_id = NoneId
                /\ files.work.rows[i].old_job_ids = work_packages[i].old_job_ids
                /\ files.work.rows[i].n_tries = work_packages[i].n_tries
                /\ files.work.rows[i].slurm_status = work_packages[i].slurm_status]_vars

C34_Witness ==
    /\ pc = "schedule"
    /\ chunks # <<>>
    /\ \E i \in Range(Head(chunks)) :
          /\ work_packages[i].old_job_ids # <<>>
          /\ work_packages[i].slurm_status = "NODE_FAIL"
          /\ files.work.rows[i].old_job_ids = work_packages[i].old_job_ids
          /\ files.work.rows[i].job_id = NoneId

(* C40: when main returns, work.json lists all n_wps packages, each         *)
(* terminal and with the status, job_id, n_tries, old_job_ids and error_msg *)
(* that it has in memory, however the run ended                              *)
C40_FinalSnapshot ==
    pc = "done" =>
        /\ files.work.written
        /\ Len(files.work.rows) = n_wps
        /\ Len(work_packages) = n_wps
        /\ \A i \in DOMAIN work_packages :
              /\ files.work.rows[i].params = i
              /\ files.work.rows[i].status \in {"SUCCEEDED", "FAILED"}
              /\ files.work.rows[i].status = work_packages[i].status
              /\ files.work.rows[i].job_id = work_packages[i].job_id
              /\ files.work.rows[i].n_tries = work_packages[i].n_tries
              /\ files.work.rows[i].old_job_ids = work_packages[i].old_job_ids
              /\ files.work.rows[i].error_msg = work_packages[i].error_msg

C40_Witness ==
    /\ pc = "done"
    /\ n_panics = 1
    /\ n_init_failed = 0
    /\ \E i \in DOMAIN work_packages :
          /\ work_packages[i].error_msg = "Panic! All running jobs were canceled."
          /\ files.work.rows[i].error_msg = work_packages[i].error_msg
    /\ \E i \in DOMAIN work_packages : work_packages[i].status = "SUCCEEDED"

(* C37: a package is submitted again only when its previous job can no      *)
(* longer run: the last status that the cluster reported for that job is    *)
(* not one of a job that is waiting, running, suspended, stopped or         *)
(* requeued, or the scheduler has cancelled the job                          *)
C37_OneLiveJobPerPackage ==
    [][\A i \in DOMAIN work_packages :
         (/\ pc = "schedule"
          /\ work_packages[i].job_id = NoneId
          /\ work_packages'[i].job_id # NoneId
          /\ work_packages[i].old_job_ids # <<>>)
         => \/ work_packages[i].slurm_status
                 \notin ACTIVE \cup {"REQUEUED", "REQUEUE_FED", "STOPPED", "SUSPENDED"}
            \/ \E k \in DOMAIN cancel_calls :
                  cancel_calls[k] =
                      work_packages[i].old_job_ids[Len(work_packages[i].old_job_ids)]]_vars

(* C33: a notification of main changes no work package and nothing else of  *)
(* the scheduler, and main goes on after it at the same place whether the   *)
(* chat sink answers, returns nothing or raises; the other steps of main    *)
(* neither read nor change what the notifications leave behind               *)
C33_NotificationsNeverInterfere ==
    [][/\ pc \in {"notify_start", "notify_status", "notify_failure", "notify_done"} =>
            /\ UNCHANGED <<properties, work_packages, n_wps, n_init_failed, chunks, todo,
                           next_job_id, sbatch_calls, submit_count, faults, observed,
                           n_panics, cancel_calls, files, exception>>
            /\ pc' = CASE pc = "notify_start" -> "loop"
                       [] pc = "notify_status" -> "loop"
                       [] pc = "notify_failure" -> "monitor"
                       [] pc = "notify_done" -> "done"
       /\ pc \notin {"notify_start", "notify_status", "notify_failure", "notify_done"} =>
            slack' = slack]_vars

C33_Witness ==
    /\ pc = "done"
    /\ slack.failed
    /\ slack.thread_id = "ts"
    /\ \E i \in DOMAIN work_packages : work_packages[i].status = "SUCCEEDED"
    /\ \E i \in DOMAIN work_packages :
          work_packages[i].status = "FAILED" /\ work_packages[i].slurm_status = "FAILED"

====
